---- MODULE Spec2Model ----
(***************************************************************************)
(* Fallback persistence store of the AI voice news scraper                  *)
(* (ai_voice_scraper/storage/db_manager.py, storage/db_manager.py).        *)
(*                                                                         *)
(* The store keeps three entity kinds (news items, reactions, run          *)
(* summaries) in a MongoDB collection each, and in one JSON file each      *)
(* when the module-level flag USE_FILE_STORAGE is set.  Every handler is   *)
(* one action; the environment decides whether the MongoDB server answers  *)
(* (primaryUp), whether it stops answering in the middle of a call (drop)  *)
(* and whether the JSON file can be read and written (ff).                 *)
(***************************************************************************)
EXTENDS Integers, Sequences, FiniteSets, TLC

VARIABLES
    USE_FILE_STORAGE,   \* module global: TRUE = fallback (file) backend
    client,             \* module global: "motor" or "None"
    primaryUp,          \* environment: the MongoDB server answers
    news_file,          \* data/news_items.json, a list of records
    news_coll,          \* db['news_items'], documents in insertion order
    reactions_file,     \* data/reactions.json
    reactions_coll,     \* db['reactions']
    runs_file,          \* data/runs.json
    runs_coll,          \* db['runs']
    clock,              \* datetime.now(), one tick per call
    nextId,             \* the next value uuid.uuid4() returns
    faults,             \* I/O failures the environment has injected so far
    last,               \* what the last completed call did and returned
    tasks,              \* in-flight store_news_item coroutines
    cls,                \* one is_relevant_to_voice_ai call: input and result
    pipe,               \* one run_pipeline execution: configuration, position,
                        \* local variables and result
    trends,             \* one analyze_trends call: the runs and the result
    loop,               \* main() of main.py: mode, position, runs started
    scrape              \* one scrape_news_sources call: what each source
                        \* returned, and the result

storeVars == <<USE_FILE_STORAGE, client, primaryUp, news_file, news_coll,
               reactions_file, reactions_coll, runs_file, runs_coll,
               clock, nextId, faults, last, tasks>>

\* The variables outside the store and the pipeline.
otherVars == <<trends, loop, scrape>>

vars == <<storeVars, cls, pipe, otherVars>>

newsVars == <<news_file, news_coll>>
reactVars == <<reactions_file, reactions_coll>>
runVars == <<runs_file, runs_coll>>

----------------------------------------------------------------------------
(* Values *)

\* A missing dictionary key / Python None for a string-valued field.
Absent == "absent"

\* Python None as a returned identifier (identifiers are 1, 2, ...).
None == 0

Urls == {"u1", "u2"}
Titles == {"a", "b"}
Contents == {"x", "y"}

\* published_date as get_recent_news sees it: an ISO string inside the
\* look-back window (with or without a UTC offset), an ISO string without
\* offset before the window, an ISO string with a UTC offset before the
\* window ("2025-12-01T00:00:00+00:00", "...Z": an Atom feed date), a string
\* fromisoformat rejects and that starts with a letter (an RFC 822 feed date,
\* "Mon, 02 Nov ..."), a string fromisoformat rejects and that sorts before
\* the cutoff's ISO string ("", "01 Nov 2026 10:00:00 GMT", "01/11/2026"),
\* an ISO string inside the window, on the cutoff's day, whose date and time
\* are separated by a blank ("2026-11-01 10:00:00": it parses, and sorts
\* before the cutoff's "2026-11-01T09:..."), an ISO string before the cutoff,
\* on the cutoff's day, whose separator sorts after 'T'
\* ("2026-11-01t08:00:00": it parses, and sorts after the cutoff's string),
\* or no such key.
Published ==
    {"recent", "old", "offset", "rfc822", "numeric", "spaced", "lowered",
     Absent}

\* Outcome of the JSON file I/O of one call: all fine; load_file_data hits
\* its except branch; open(path, 'w') fails; json.dump fails after the open
\* has truncated the file.
FileFaults == {"ok", "read", "open", "dump"}

\* Runs retained by store_run_summary.
RETENTION == 10

\* Bounds of the model.
MaxCalls == 3
MaxNewsCalls == 3
MaxReactCalls == 3
MaxRunCalls == 11
MaxFaults == 1
MaxFragments == 3
MaxItems == 2
MaxPosts == 1

\* The limits get_recent_runs is called with: analyze_trends passes 2, the
\* default is 3.
Limits == {2, 3}

----------------------------------------------------------------------------
(* Sequence helpers *)

\* Smallest index of s whose element satisfies Test, 0 when there is none
\* (the `for i, item in enumerate(...): if ...: break` loops, find_one).
FirstIndex(s, Test(_)) ==
    LET idx == {i \in 1..Len(s) : Test(s[i])}
    IN IF idx = {} THEN 0 ELSE CHOOSE i \in idx : \A j \in idx : i <= j

SeqToSet(s) == {s[i] : i \in 1..Len(s)}

\* s[-n:] of Python for n > 0.
LastN(s, n) == IF Len(s) <= n THEN s ELSE SubSeq(s, Len(s) - n + 1, Len(s))

\* s[:n] of Python for n >= 0.
FirstN(s, n) == IF Len(s) <= n THEN s ELSE SubSeq(s, 1, n)

----------------------------------------------------------------------------
(* Backend selection *)

\* test_mongodb_connection() reaches client.admin.command('ping').
PingAttempted == ~USE_FILE_STORAGE /\ client # "None"

\* The value test_mongodb_connection() returns.
test_mongodb_connection ==
    IF USE_FILE_STORAGE \/ client = "None" THEN FALSE ELSE primaryUp

\* `use_files = USE_FILE_STORAGE or not await test_mongodb_connection()`
use_files == USE_FILE_STORAGE \/ ~test_mongodb_connection

\* USE_FILE_STORAGE once that expression has been evaluated: a failed ping
\* sets the flag, nothing ever clears it.
FlagAfterSelect == USE_FILE_STORAGE \/ (PingAttempted /\ ~primaryUp)

----------------------------------------------------------------------------
(* JSON files *)

\* load_file_data: the list in the file, [] when the file cannot be loaded.
load_file_data(file, ff) == IF ff = "read" THEN <<>> ELSE file

\* The file after save_file_data(data): unchanged when open() fails, left
\* truncated (it loads as []) when json.dump fails, else the data.
save_file_data(file, data, ff) ==
    IF ff = "open" THEN file ELSE IF ff = "dump" THEN <<>> ELSE data

\* The value save_file_data returns.
SaveOk(ff) == ff \notin {"open", "dump"}

\* The environment injects at most MaxFaults failures (a file fault ff, or
\* the server going away at step drop of a call).
InjectFault(ff, drop) ==
    IF ff # "ok" \/ drop # 0
    THEN faults < MaxFaults /\ faults' = faults + 1
    ELSE faults' = faults

----------------------------------------------------------------------------
(* The record of the last call *)

\* No stored record matched (find_one returned None, existing_index is None).
NoRecord == [id |-> None]

\* op: the handler; arg: its argument; item: the record it tried to store;
\* served: the backend it used; ret: the identifier returned (None = 0);
\* rows: the list a read returned; raised: the handler's except branch ran;
\* probed: the ping was attempted; fbBefore/upBefore: USE_FILE_STORAGE and
\* primaryUp when the call began; prior: the stored record it matched.
NoCall ==
    [op |-> "none", item |-> <<>>, served |-> "none", ret |-> None,
     raised |-> FALSE, probed |-> FALSE, fbBefore |-> FALSE,
     upBefore |-> FALSE, ff |-> "ok", drop |-> 0, prior |-> NoRecord,
     rows |-> <<>>, arg |-> <<>>]

----------------------------------------------------------------------------
(* store_news_item *)

IndexOfUrl(s, u) == FirstIndex(s, LAMBDA r : r.url = u)

IdsOf(s) == {s[i].id : i \in 1..Len(s)}

\* `if '_id' not in news_item: news_item['_id'] = str(uuid.uuid4())`
WithId(item) == [item EXCEPT !.id = IF item.id = None THEN nextId ELSE item.id]

\* `news_item['stored_at'] = datetime.now().isoformat()`: the key is set on
\* every call, whether or not the record carried one.
Stamp(item) ==
    [f \in DOMAIN item \cup {"stored_at"} |->
        IF f = "stored_at" THEN clock ELSE item[f]]

\* Variant: replaces a stored record but never appends a new one.
FileUpsertNews_no_append(s, rec) ==
    LET i == IndexOfUrl(s, rec.url)
    IN IF i # 0 THEN [s EXCEPT ![i] = rec] ELSE s

\* The file branch: replace the first record with the item's URL, else append.
FileUpsertNews(s, rec) ==
    LET i == IndexOfUrl(s, rec.url)
    IN IF i # 0 THEN [s EXCEPT ![i] = rec] ELSE Append(s, rec)

\* The loop reads news_item['url'] once per stored record: a KeyError when
\* the item has no URL and the list is not empty.
FileKeyError(s, rec) == rec.url = Absent /\ s # <<>>

\* update_one({'_id': existing['_id']}, {'$set': news_item}): the server
\* rejects a $set that would change _id.
MongoUpdateRejected(existing, rec) == rec.id # existing.id

\* $set overwrites the keys the item carries and keeps the others.
MongoSet(existing, rec) ==
    [f \in DOMAIN existing \cup DOMAIN rec |->
        IF f = "id" THEN existing.id
        ELSE IF f \notin DOMAIN rec THEN existing[f]
        ELSE IF f = "published" /\ rec[f] = Absent /\ f \in DOMAIN existing
             THEN existing[f]
        ELSE rec[f]]

\* insert_one: the server rejects a duplicate _id.
MongoInsertRejected(coll, rec) == rec.id \in IdsOf(coll)

store_news_item(item, ff, drop) ==
    LET rec == Stamp(WithId(item))
        files == use_files
        loaded == load_file_data(news_file, ff)
        j == IndexOfUrl(news_coll, rec.url)
        base == [NoCall EXCEPT !.op = "store_news_item", !.item = rec,
                    !.arg = item,
                    !.probed = PingAttempted, !.fbBefore = USE_FILE_STORAGE,
                    !.upBefore = primaryUp, !.ff = ff, !.drop = drop]
    IN
    /\ files => drop = 0
    /\ ~files => ff = "ok"
    /\ InjectFault(ff, drop)
    /\ nextId' = IF item.id = None THEN nextId + 1 ELSE nextId
    /\ clock' = clock + 1
    /\ USE_FILE_STORAGE' = FlagAfterSelect
    /\ UNCHANGED <<client, reactVars, runVars, tasks>>
    /\ IF files
       THEN /\ UNCHANGED <<news_coll, primaryUp>>
            /\ IF FileKeyError(loaded, rec)
               THEN /\ ff # "open" /\ ff # "dump"
                    /\ UNCHANGED news_file
                    /\ last' = [base EXCEPT !.served = "file", !.raised = TRUE]
               ELSE /\ news_file' =
                          save_file_data(news_file, FileUpsertNews(loaded, rec), ff)
                    /\ last' = [base EXCEPT !.served = "file", !.ret = rec.id,
                          !.prior = IF IndexOfUrl(loaded, rec.url) = 0
                                    THEN NoRecord
                                    ELSE loaded[IndexOfUrl(loaded, rec.url)]]
       ELSE /\ UNCHANGED news_file
            /\ primaryUp' = (drop = 0)
            /\ IF rec.url = Absent
               THEN \* news_item['url'] raises before find_one is called
                    /\ drop = 0
                    /\ UNCHANGED news_coll
                    /\ last' = [base EXCEPT !.served = "mongo", !.raised = TRUE]
               ELSE IF drop = 1
               THEN \* find_one fails
                    /\ UNCHANGED news_coll
                    /\ last' = [base EXCEPT !.served = "mongo", !.raised = TRUE]
               ELSE IF j # 0
               THEN /\ drop \in {0, 2}
                    /\ IF drop = 2 \/ MongoUpdateRejected(news_coll[j], rec)
                       THEN /\ UNCHANGED news_coll
                            /\ last' = [base EXCEPT !.served = "mongo",
                                  !.raised = TRUE, !.prior = news_coll[j]]
                       ELSE /\ news_coll' = [news_coll EXCEPT
                                  ![j] = MongoSet(news_coll[j], rec)]
                            /\ last' = [base EXCEPT !.served = "mongo",
                                  !.ret = news_coll[j].id,
                                  !.prior = news_coll[j]]
               ELSE /\ drop \in {0, 2}
                    /\ IF drop = 2 \/ MongoInsertRejected(news_coll, rec)
                       THEN /\ UNCHANGED news_coll
                            /\ last' = [base EXCEPT !.served = "mongo",
                                  !.raised = TRUE]
                       ELSE /\ news_coll' = Append(news_coll, rec)
                            /\ last' = [base EXCEPT !.served = "mongo",
                                  !.ret = rec.id]

----------------------------------------------------------------------------
(* store_reaction *)

\* `item.get('url') == reaction.get('url') or
\*  item.get('content') == reaction.get('content')`: a missing URL reads as
\* None on both sides.
FileReactionMatch(stored, rec) ==
    stored.url = rec.url \/ stored.content = rec.content

\* `if 'url' in reaction: find_one({'url': ...}) else find_one({'content': ...})`
MongoReactionMatch(stored, rec) ==
    IF rec.url # Absent THEN stored.url = rec.url
    ELSE stored.content = rec.content

FileUpsertReaction(s, rec) ==
    LET i == FirstIndex(s, LAMBDA r : FileReactionMatch(r, rec))
    IN IF i # 0 THEN [s EXCEPT ![i] = rec] ELSE Append(s, rec)

MongoSetReaction(existing, rec) ==
    [f \in DOMAIN existing \cup DOMAIN rec |->
        IF f = "id" THEN existing.id
        ELSE IF f \notin DOMAIN rec THEN existing[f]
        ELSE IF f = "url" /\ rec[f] = Absent /\ f \in DOMAIN existing
             THEN existing[f]
        ELSE rec[f]]

store_reaction(reaction, ff, drop) ==
    LET rec == Stamp(WithId(reaction))
        files == use_files
        loaded == load_file_data(reactions_file, ff)
        i == FirstIndex(loaded, LAMBDA r : FileReactionMatch(r, rec))
        j == FirstIndex(reactions_coll, LAMBDA r : MongoReactionMatch(r, rec))
        base == [NoCall EXCEPT !.op = "store_reaction", !.item = rec,
                    !.arg = reaction,
                    !.probed = PingAttempted, !.fbBefore = USE_FILE_STORAGE,
                    !.upBefore = primaryUp, !.ff = ff, !.drop = drop]
    IN
    /\ files => drop = 0
    /\ ~files => ff = "ok"
    /\ InjectFault(ff, drop)
    /\ nextId' = IF reaction.id = None THEN nextId + 1 ELSE nextId
    /\ clock' = clock + 1
    /\ USE_FILE_STORAGE' = FlagAfterSelect
    /\ UNCHANGED <<client, newsVars, runVars, tasks>>
    /\ IF files
       THEN /\ UNCHANGED <<reactions_coll, primaryUp>>
            /\ reactions_file' =
                  save_file_data(reactions_file, FileUpsertReaction(loaded, rec), ff)
            /\ last' = [base EXCEPT !.served = "file", !.ret = rec.id,
                  !.prior = IF i = 0 THEN NoRecord ELSE loaded[i]]
       ELSE /\ UNCHANGED reactions_file
            /\ primaryUp' = (drop = 0)
            /\ IF drop = 1
               THEN \* find_one fails
                    /\ UNCHANGED reactions_coll
                    /\ last' = [base EXCEPT !.served = "mongo", !.raised = TRUE]
               ELSE IF j # 0
               THEN /\ drop \in {0, 2}
                    /\ IF drop = 2 \/ MongoUpdateRejected(reactions_coll[j], rec)
                       THEN /\ UNCHANGED reactions_coll
                            /\ last' = [base EXCEPT !.served = "mongo",
                                  !.raised = TRUE, !.prior = reactions_coll[j]]
                       ELSE /\ reactions_coll' = [reactions_coll EXCEPT
                                  ![j] = MongoSetReaction(reactions_coll[j], rec)]
                            /\ last' = [base EXCEPT !.served = "mongo",
                                  !.ret = reactions_coll[j].id,
                                  !.prior = reactions_coll[j]]
               ELSE /\ drop \in {0, 2}
                    /\ IF drop = 2 \/ MongoInsertRejected(reactions_coll, rec)
                       THEN /\ UNCHANGED reactions_coll
                            /\ last' = [base EXCEPT !.served = "mongo",
                                  !.raised = TRUE]
                       ELSE /\ reactions_coll' = Append(reactions_coll, rec)
                            /\ last' = [base EXCEPT !.served = "mongo",
                                  !.ret = rec.id]

----------------------------------------------------------------------------
(* store_run_summary, get_recent_runs *)

\* Variant: the sort is missing.
SortNewestFirst_unsorted(s) == s

\* sort(key=timestamp, reverse=True) / .sort('timestamp', -1): newest first,
\* records of equal timestamp in their stored order.
SortNewestFirst(s) ==
    LET n == Len(s)
        Rank(i) == Cardinality({j \in 1..n : s[j].timestamp > s[i].timestamp})
                   + Cardinality({j \in 1..(i - 1) :
                                    s[j].timestamp = s[i].timestamp}) + 1
    IN [k \in 1..n |-> s[CHOOSE i \in 1..n : Rank(i) = k]]


\* `runs.append(run_summary); runs = runs[-10:]`
FileAppendRun(s, run) == LastN(Append(s, run), RETENTION)

\* find().sort('timestamp', -1).skip(10): the runs delete_many removes.
MongoOldRuns(coll) ==
    LET sorted == SortNewestFirst(coll)
    IN {sorted[k].id : k \in (RETENTION + 1)..Len(sorted)}

MongoDeleteRuns(coll, ids) == SelectSeq(coll, LAMBDA r : r.id \notin ids)

\* The counts of run_data that analyze_trends reads back.
RunData(processed, posts) ==
    [articles_processed |-> processed, reddit_posts |-> posts]

\* run_data of a run that found nothing.
EmptyRun == RunData(0, 0)

\* drop: 1 = insert_one fails, 2 = the find of the old runs fails,
\* 3 = delete_many fails.
store_run_summary(run_data, ff, drop) ==
    LET run == [id |-> nextId, timestamp |-> clock,
                articles_processed |-> run_data.articles_processed,
                reddit_posts |-> run_data.reddit_posts]
        files == use_files
        loaded == load_file_data(runs_file, ff)
        inserted == Append(runs_coll, run)
        old == MongoOldRuns(inserted)
        base == [NoCall EXCEPT !.op = "store_run_summary", !.item = run,
                    !.probed = PingAttempted, !.fbBefore = USE_FILE_STORAGE,
                    !.upBefore = primaryUp, !.ff = ff, !.drop = drop]
    IN
    /\ files => drop = 0
    /\ ~files => ff = "ok"
    /\ InjectFault(ff, drop)
    /\ nextId' = nextId + 1
    /\ clock' = clock + 1
    /\ USE_FILE_STORAGE' = FlagAfterSelect
    /\ UNCHANGED <<client, newsVars, reactVars, tasks>>
    /\ IF files
       THEN /\ UNCHANGED <<runs_coll, primaryUp>>
            /\ runs_file' = save_file_data(runs_file, FileAppendRun(loaded, run), ff)
            /\ last' = [base EXCEPT !.served = "file", !.ret = run.id]
       ELSE /\ UNCHANGED runs_file
            /\ primaryUp' = (drop = 0)
            /\ IF drop = 1
               THEN /\ UNCHANGED runs_coll
                    /\ last' = [base EXCEPT !.served = "mongo", !.raised = TRUE]
               ELSE IF drop = 2 \/ (drop = 3 /\ old # {})
               THEN /\ runs_coll' = inserted
                    /\ last' = [base EXCEPT !.served = "mongo", !.raised = TRUE]
               ELSE /\ drop = 0
                    /\ runs_coll' = MongoDeleteRuns(inserted, old)
                    /\ last' = [base EXCEPT !.served = "mongo", !.ret = run.id]

\* drop: 1 = the cursor's to_list fails.
get_recent_runs(limit, ff, drop) ==
    LET files == use_files
        loaded == load_file_data(runs_file, ff)
        base == [NoCall EXCEPT !.op = "get_recent_runs", !.arg = limit,
                    !.probed = PingAttempted, !.fbBefore = USE_FILE_STORAGE,
                    !.upBefore = primaryUp, !.ff = ff, !.drop = drop]
    IN
    /\ files => drop = 0
    /\ ~files => ff = "ok"
    /\ InjectFault(ff, drop)
    /\ ff \in {"ok", "read"}
    /\ drop \in {0, 1}
    /\ USE_FILE_STORAGE' = FlagAfterSelect
    /\ UNCHANGED <<client, newsVars, reactVars, runVars, clock, nextId, tasks>>
    /\ IF files
       THEN /\ UNCHANGED primaryUp
            /\ last' = [base EXCEPT !.served = "file",
                  !.rows = FirstN(SortNewestFirst(loaded), limit)]
       ELSE /\ primaryUp' = (drop = 0)
            /\ IF drop = 1
               THEN last' = [base EXCEPT !.served = "mongo", !.raised = TRUE]
               ELSE last' = [base EXCEPT !.served = "mongo",
                        !.rows = FirstN(SortNewestFirst(runs_coll), limit)]

----------------------------------------------------------------------------
(* get_recent_news *)

\* to_list(length=100)
RECENT_CAP == 100

\* File branch: fromisoformat(item.get('published_date', '')) >= cutoff_date,
\* and `except: recent_items.append(item)` when the string does not parse or
\* when the comparison raises (a date with a UTC offset against the naive
\* cutoff): only a naive ISO date before the cutoff is left out, whatever
\* separates its date from its time.
FileIsRecent(r) == r.published \notin {"old", "lowered"}

\* Mongo branch: {'published_date': {'$gte': cutoff_date.isoformat()}}, a
\* comparison of strings; a document without the key does not match, a
\* string starting with a letter sorts after every ISO date, a string that
\* sorts before the cutoff (an ISO date before the window, with or without
\* offset, and a date of the cutoff's day written with a blank among them)
\* does not match, a date of the cutoff's day written with a separator above
\* 'T' matches.
MongoIsRecent(r) == r.published \in {"recent", "rfc822", "lowered"}

\* drop: 1 = the cursor's to_list fails.
get_recent_news(ff, drop) ==
    LET files == use_files
        loaded == load_file_data(news_file, ff)
        base == [NoCall EXCEPT !.op = "get_recent_news",
                    !.probed = PingAttempted, !.fbBefore = USE_FILE_STORAGE,
                    !.upBefore = primaryUp, !.ff = ff, !.drop = drop]
    IN
    /\ files => drop = 0
    /\ ~files => ff = "ok"
    /\ InjectFault(ff, drop)
    /\ ff \in {"ok", "read"}
    /\ drop \in {0, 1}
    /\ USE_FILE_STORAGE' = FlagAfterSelect
    /\ UNCHANGED <<client, newsVars, reactVars, runVars, clock, nextId, tasks>>
    /\ IF files
       THEN /\ UNCHANGED primaryUp
            /\ last' = [base EXCEPT !.served = "file",
                  !.rows = SelectSeq(loaded, FileIsRecent)]
       ELSE /\ primaryUp' = (drop = 0)
            /\ IF drop = 1
               THEN last' = [base EXCEPT !.served = "mongo", !.raised = TRUE]
               ELSE last' = [base EXCEPT !.served = "mongo",
                        !.rows = FirstN(SelectSeq(news_coll, MongoIsRecent),
                                        RECENT_CAP)]

----------------------------------------------------------------------------
(* store_news_item as a coroutine: one step per suspension point *)

Tasks == {1, 2}

\* pc: "idle", then "ping" (awaiting client.admin.command('ping')), "find"
\* (awaiting find_one), "write" (awaiting update_one / insert_one), "done".
IdleTask ==
    [pc |-> "idle", item |-> <<>>, existing |-> NoRecord, served |-> "none",
     ret |-> None]

\* The synchronous file branch, lines 93-110: no await between load and
\* save.  A file that cannot be loaded reads as [], and the value
\* save_file_data returns is not looked at.
TaskFileBranch(t, rec, ff) ==
    LET loaded == load_file_data(news_file, ff)
    IN
    /\ InjectFault(ff, 0)
    /\ UNCHANGED news_coll
    /\ IF FileKeyError(loaded, rec)
       THEN /\ SaveOk(ff)
            /\ UNCHANGED news_file
            /\ tasks' = [tasks EXCEPT ![t] = [pc |-> "done", item |-> rec,
                  existing |-> NoRecord, served |-> "file", ret |-> None]]
       ELSE /\ news_file' =
                  save_file_data(news_file, FileUpsertNews(loaded, rec), ff)
            /\ tasks' = [tasks EXCEPT ![t] = [pc |-> "done", item |-> rec,
                  existing |-> NoRecord, served |-> "file", ret |-> rec.id]]

\* Lines 81-89 up to the first suspension: the id is assigned, the flag is
\* read, and unless it short-circuits the ping is sent.
TaskBegin(t, item, ff) ==
    LET rec == Stamp(WithId(item))
    IN
    /\ tasks[t].pc = "idle"
    /\ nextId' = IF item.id = None THEN nextId + 1 ELSE nextId
    /\ UNCHANGED <<USE_FILE_STORAGE, client, primaryUp, reactVars, runVars,
                   clock, last>>
    /\ IF USE_FILE_STORAGE \/ client = "None"
       THEN TaskFileBranch(t, rec, ff)
       ELSE /\ ff = "ok"
            /\ UNCHANGED <<newsVars, faults>>
            /\ tasks' = [tasks EXCEPT ![t] = [IdleTask EXCEPT !.pc = "ping",
                  !.item = rec]]

\* The ping returns or raises (lines 47-55); on success the coroutine goes
\* on to find_one, on failure it sets the flag and runs the file branch.
TaskPing(t, ff) ==
    /\ tasks[t].pc = "ping"
    /\ UNCHANGED <<client, primaryUp, reactVars, runVars, clock, nextId,
                   last>>
    /\ IF primaryUp
       THEN /\ ff = "ok"
            /\ UNCHANGED <<USE_FILE_STORAGE, newsVars, faults>>
            /\ tasks' = [tasks EXCEPT ![t] =
                  IF tasks[t].item.url = Absent
                  THEN [@ EXCEPT !.pc = "done", !.served = "mongo"]
                  ELSE [@ EXCEPT !.pc = "find", !.served = "mongo"]]
       ELSE /\ USE_FILE_STORAGE' = TRUE
            /\ TaskFileBranch(t, tasks[t].item, ff)

\* find_one returns (line 113) or raises.
TaskFind(t) ==
    LET j == IndexOfUrl(news_coll, tasks[t].item.url)
    IN
    /\ tasks[t].pc = "find"
    /\ UNCHANGED <<USE_FILE_STORAGE, client, primaryUp, newsVars, reactVars,
                   runVars, clock, nextId, faults, last>>
    /\ tasks' = [tasks EXCEPT ![t] =
          IF ~primaryUp THEN [@ EXCEPT !.pc = "done"]
          ELSE [@ EXCEPT !.pc = "write",
                  !.existing = IF j = 0 THEN NoRecord ELSE news_coll[j]]]

\* update_one / insert_one returns (lines 114-124) or raises.
TaskWrite(t) ==
    LET rec == tasks[t].item
        existing == tasks[t].existing
        j == FirstIndex(news_coll, LAMBDA r : r.id = existing.id)
    IN
    /\ tasks[t].pc = "write"
    /\ UNCHANGED <<USE_FILE_STORAGE, client, primaryUp, news_file, reactVars,
                   runVars, clock, nextId, faults, last>>
    /\ IF ~primaryUp
       THEN /\ UNCHANGED news_coll
            /\ tasks' = [tasks EXCEPT ![t] = [@ EXCEPT !.pc = "done"]]
       ELSE IF existing.id # None
       THEN IF MongoUpdateRejected(existing, rec)
            THEN /\ UNCHANGED news_coll
                 /\ tasks' = [tasks EXCEPT ![t] = [@ EXCEPT !.pc = "done"]]
            ELSE /\ news_coll' = [news_coll EXCEPT
                       ![j] = MongoSet(news_coll[j], rec)]
                 /\ tasks' = [tasks EXCEPT ![t] =
                       [@ EXCEPT !.pc = "done", !.ret = existing.id]]
       ELSE IF MongoInsertRejected(news_coll, rec)
            THEN /\ UNCHANGED news_coll
                 /\ tasks' = [tasks EXCEPT ![t] = [@ EXCEPT !.pc = "done"]]
            ELSE /\ news_coll' = Append(news_coll, rec)
                 /\ tasks' = [tasks EXCEPT ![t] =
                       [@ EXCEPT !.pc = "done", !.ret = rec.id]]

----------------------------------------------------------------------------
(* Environment *)

\* The MongoDB server becomes reachable.
PrimaryRecovers ==
    /\ ~primaryUp
    /\ primaryUp' = TRUE
    /\ UNCHANGED <<USE_FILE_STORAGE, client, newsVars, reactVars, runVars,
                   clock, nextId, faults, last, tasks, cls, pipe,
                   otherVars>>

\* The MongoDB server becomes unreachable.
PrimaryFails ==
    /\ primaryUp
    /\ primaryUp' = FALSE
    /\ UNCHANGED <<USE_FILE_STORAGE, client, newsVars, reactVars, runVars,
                   clock, nextId, faults, last, tasks, cls, pipe,
                   otherVars>>

----------------------------------------------------------------------------
(* Relevance classifier: is_relevant_to_voice_ai *)

\* The keyword tables, as the three configurations the classifier can run
\* with define them: "package" (ai_voice_scraper/config/keywords.py, read by
\* ai_voice_scraper/processors/content_processor.py), "module"
\* (config/keywords.py, read by processors/content_processor.py) and
\* "builtin" (the table processors/content_processor.py defines itself when
\* `from config.keywords import ...` raises ImportError).
Configs == {"package", "module", "builtin"}

\* ai_voice_scraper/config/keywords.py
PKG_PRIMARY_VOICE_AI_KEYWORDS ==
    <<"voice ai", "voice assistant", "voice synthesis", "voice clone",
      "voice cloning", "speech synthesis", "speech recognition",
      "text to speech", "tts", "speech to text", "stt", "voice generation",
      "voice model", "voice transformer", "voice conversion",
      "voice deepfake", "synthetic voice", "ai voice", "neural voice",
      "voice neural network", "voice ml", "voice machine learning",
      "voice deep learning", "voice transformer", "elevenlabs", "play.ht",
      "murf.ai", "resemble.ai", "wellsaid", "wellsaidlabs",
      "voice recognition", "voice interface", "voice user interface", "vui",
      "voice computing", "voice tech", "voice technology", "voice-first",
      "voice first", "voice application", "voice app", "voice-enabled",
      "voice enabled", "voice-activated", "voice activated",
      "voice-controlled", "voice controlled", "voice-driven", "voice driven",
      "voice-based", "voice based", "voice-powered", "voice powered",
      "voice-operated", "voice operated", "voice-directed", "voice directed",
      "voice-guided", "voice guided", "voice-centric", "voice centric",
      "voice-focused", "voice focused", "voice-oriented", "voice oriented",
      "voice-optimized", "voice optimized", "voice-specific",
      "voice specific", "voice-targeted", "voice targeted", "voice-only",
      "voice only", "voice-exclusive", "voice exclusive", "voice-primary",
      "voice primary", "voice-secondary", "voice secondary",
      "voice-tertiary", "voice tertiary", "voice-quaternary",
      "voice quaternary", "voice-quinary", "voice quinary", "voice-senary",
      "voice senary", "voice-septenary", "voice septenary", "voice-octonary",
      "voice octonary", "voice-nonary", "voice nonary", "voice-denary",
      "voice denary", "voice-undenary", "voice undenary", "voice-duodenary",
      "voice duodenary", "voice-tredenary", "voice tredenary",
      "voice-quattuordenary", "voice quattuordenary", "voice-quindenary",
      "voice quindenary", "voice-sexdenary", "voice sexdenary",
      "voice-septendenary", "voice septendenary", "voice-octodenary",
      "voice octodenary", "voice-novemdenary", "voice novemdenary",
      "voice-vigintenary", "voice vigintenary">>

\* The list repeats each of its fourteen phrases.
PKG_SECONDARY_VOICE_AI_KEYWORDS ==
    <<"audio generation", "audio synthesis", "audio clone", "audio cloning",
      "audio deepfake", "synthetic audio", "ai audio", "neural audio",
      "audio neural network", "audio ml", "audio machine learning",
      "audio deep learning", "audio transformer", "audio model",
      "audio generation", "audio synthesis", "audio clone", "audio cloning",
      "audio deepfake", "synthetic audio", "ai audio", "neural audio",
      "audio neural network", "audio ml", "audio machine learning",
      "audio deep learning", "audio transformer", "audio model">>

PKG_CONTEXT_KEYWORDS ==
    <<"generative ai", "gen ai", "artificial intelligence",
      "machine learning", "deep learning", "neural network", "transformer",
      "model", "algorithm", "training", "fine-tuning", "fine tuning",
      "dataset", "data set", "corpus", "corpora", "sample", "samples",
      "sampling", "generation", "synthesis", "synthetic", "clone", "cloning",
      "deepfake", "deep fake", "fake", "real-time", "real time", "realtime",
      "streaming", "stream", "api", "apis", "service", "services",
      "platform", "platforms", "tool", "tools", "toolkit", "toolkits",
      "library", "libraries", "framework", "frameworks", "sdk", "sdks",
      "development kit", "development kits", "developer kit",
      "developer kits", "developer tool", "developer tools",
      "development tool", "development tools", "developer platform",
      "developer platforms", "development platform", "development platforms">>

\* config/keywords.py
CFG_PRIMARY_VOICE_AI_KEYWORDS ==
    <<"voice ai", "ai voice", "voice artificial intelligence",
      "text-to-speech", "tts", "speech synthesis", "voice synthesis",
      "voice generation", "voice model", "neural voice", "voice cloning",
      "voice clone", "synthetic voice", "voice assistant", "voice bot",
      "conversational ai", "voice interface", "voice api", "voice sdk",
      "audio generation", "speech generation", "voice streaming",
      "real-time voice", "voice conversion", "voice transformer">>

COMPANY_VOICE_KEYWORDS ==
    <<"elevenlabs", "eleven labs", "openai voice", "openai whisper",
      "google voice", "google speech", "amazon polly", "azure speech",
      "microsoft speech", "anthropic voice", "meta voice", "nvidia voice",
      "adobe voice", "murf", "speechify", "resemble ai", "descript",
      "wellsaid", "lovo">>

TECHNICAL_VOICE_KEYWORDS ==
    <<"vocoder", "neural vocoder", "wavenet", "tacotron", "fastspeech",
      "melgan", "hifigan", "voice encoder", "speaker embedding",
      "voice embedding", "prosody", "phoneme", "mel-spectrogram",
      "voice dataset", "voice training", "voice fine-tuning",
      "voice model training">>

APPLICATION_VOICE_KEYWORDS ==
    <<"voice over", "voiceover", "audiobook", "podcast generation",
      "voice dubbing", "voice translation", "multilingual voice",
      "voice accessibility", "voice commerce", "voice search",
      "voice control", "voice narration", "voice acting",
      "voice personalization", "custom voice", "brand voice">>

CFG_CONTEXT_KEYWORDS ==
    <<"ai", "artificial intelligence", "machine learning", "deep learning",
      "neural network", "model", "algorithm", "training", "dataset", "api",
      "sdk", "platform", "technology", "innovation", "startup", "funding",
      "release", "launch", "announcement">>

\* processors/content_processor.py, the except ImportError branch
BUILTIN_PRIMARY_VOICE_AI_KEYWORDS ==
    <<"voice ai", "ai voice", "voice artificial intelligence",
      "text-to-speech", "tts", "speech synthesis", "voice synthesis",
      "voice generation", "voice model", "neural voice", "voice cloning",
      "voice clone", "synthetic voice", "voice assistant", "voice bot",
      "conversational ai", "voice interface", "voice api", "voice sdk",
      "audio generation", "speech generation", "voice streaming",
      "real-time voice", "voice conversion", "voice transformer",
      "elevenlabs", "eleven labs", "openai voice", "openai whisper",
      "google voice", "google speech", "amazon polly", "azure speech",
      "microsoft speech", "anthropic voice", "meta voice", "nvidia voice",
      "adobe voice", "murf", "speechify", "resemble ai", "descript",
      "wellsaid", "lovo">>

BUILTIN_CONTEXT_KEYWORDS ==
    <<"ai", "artificial intelligence", "machine learning", "deep learning",
      "neural network", "model", "algorithm", "training", "dataset", "api",
      "sdk", "platform", "technology", "innovation", "startup", "funding",
      "release", "launch", "announcement">>

\* ALL_VOICE_AI_KEYWORDS = PRIMARY_VOICE_AI_KEYWORDS + ... (list
\* concatenation; the built-in table binds both names to one list).
PRIMARY_VOICE_AI_KEYWORDS(cfg) ==
    CASE cfg = "package" -> PKG_PRIMARY_VOICE_AI_KEYWORDS
      [] cfg = "module" -> CFG_PRIMARY_VOICE_AI_KEYWORDS
      [] cfg = "builtin" -> BUILTIN_PRIMARY_VOICE_AI_KEYWORDS

ALL_VOICE_AI_KEYWORDS(cfg) ==
    CASE cfg = "package" ->
            PKG_PRIMARY_VOICE_AI_KEYWORDS \o PKG_SECONDARY_VOICE_AI_KEYWORDS
      [] cfg = "module" ->
            CFG_PRIMARY_VOICE_AI_KEYWORDS \o COMPANY_VOICE_KEYWORDS
                \o TECHNICAL_VOICE_KEYWORDS \o APPLICATION_VOICE_KEYWORDS
      [] cfg = "builtin" -> BUILTIN_PRIMARY_VOICE_AI_KEYWORDS

CONTEXT_KEYWORDS(cfg) ==
    CASE cfg = "package" -> PKG_CONTEXT_KEYWORDS
      [] cfg = "module" -> CFG_CONTEXT_KEYWORDS
      [] cfg = "builtin" -> BUILTIN_CONTEXT_KEYWORDS

\* Variant: the import failure leaves the table empty.
VOICE_AI_KEYWORDS_unbound(cfg) ==
    IF cfg = "builtin" THEN <<>> ELSE ALL_VOICE_AI_KEYWORDS(cfg)

\* processors/content_processor.py: VOICE_AI_KEYWORDS = ALL_VOICE_AI_KEYWORDS
VOICE_AI_KEYWORDS(cfg) == ALL_VOICE_AI_KEYWORDS(cfg)

\* Python None passed as the text.
NoneText == Absent

UpperCase == "ABCDEFGHIJKLMNOPQRSTUVWXYZ"
LowerCase == "abcdefghijklmnopqrstuvwxyz"

\* str.lower() of one character (ASCII).
LowerChar(c) ==
    LET hits == {i \in 1..Len(UpperCase) : SubSeq(UpperCase, i, i) = c}
    IN IF hits = {} THEN c
       ELSE LET i == CHOOSE k \in hits : TRUE IN SubSeq(LowerCase, i, i)

RECURSIVE Lower(_)
\* text.lower()
Lower(s) ==
    IF s = "" THEN ""
    ELSE LowerChar(SubSeq(s, 1, 1)) \o Lower(SubSeq(s, 2, Len(s)))

\* `kw in text_lower`: unanchored substring search.
Contains(text, kw) ==
    \E i \in 1..(Len(text) - Len(kw) + 1) :
        SubSeq(text, i, i + Len(kw) - 1) = kw

\* [kw for kw in keywords if kw in text_lower]: one entry per list entry, so
\* a phrase the list repeats is matched once per repetition.
Matches(keywords, text_lower) ==
    SelectSeq(keywords, LAMBDA kw : Contains(text_lower, kw))

\* Variant: only "" is caught, None goes on to text.lower().
Falsy_empty_only(text) == text = ""

\* `if not text`
Falsy(text) == text = NoneText \/ text = ""

Verdict(b) == [ret |-> b, raised |-> FALSE]

\* None.lower(): AttributeError, not caught in the function.
Raises == [ret |-> FALSE, raised |-> TRUE]

\* Variant: the primary shortcut is gone, two matches are always needed.
is_relevant_package_two_matches(text) ==
    IF Falsy(text) THEN Verdict(FALSE)
    ELSE IF text = NoneText THEN Raises
    ELSE Verdict(Len(Matches(ALL_VOICE_AI_KEYWORDS("package"),
                             Lower(text))) >= 2)

\* Variant: only primary keywords count.
is_relevant_package_primary_only(text) ==
    IF Falsy(text) THEN Verdict(FALSE)
    ELSE IF text = NoneText THEN Raises
    ELSE Verdict(Matches(PRIMARY_VOICE_AI_KEYWORDS("package"),
                         Lower(text)) # <<>>)

\* ai_voice_scraper/processors/content_processor.py
is_relevant_package(text) ==
    IF Falsy(text) THEN Verdict(FALSE)
    ELSE IF text = NoneText THEN Raises
    ELSE LET text_lower == Lower(text)
             primary_matches ==
                 Matches(PRIMARY_VOICE_AI_KEYWORDS("package"), text_lower)
             all_keyword_matches ==
                 Matches(ALL_VOICE_AI_KEYWORDS("package"), text_lower)
         IN IF primary_matches # <<>> THEN Verdict(TRUE)
            ELSE IF Len(all_keyword_matches) >= 2 THEN Verdict(TRUE)
            ELSE Verdict(FALSE)

\* any(word in text_lower for word in ['ai', 'artificial intelligence'])
has_ai(text_lower) ==
    \E word \in {"ai", "artificial intelligence"} : Contains(text_lower, word)

\* any(word in text_lower for word in ['voice', 'speech', 'audio'])
has_voice(text_lower) ==
    \E word \in {"voice", "speech", "audio"} : Contains(text_lower, word)

\* Variant: either half of the combination is enough.
AiVoiceCombination_either(text_lower) ==
    has_ai(text_lower) \/ has_voice(text_lower)

\* `if has_ai and has_voice`
AiVoiceCombination(text_lower) == has_ai(text_lower) /\ has_voice(text_lower)

\* processors/content_processor.py, with the table cfg names.
is_relevant_legacy(cfg, text) ==
    IF Falsy(text) THEN Verdict(FALSE)
    ELSE IF text = NoneText THEN Raises
    ELSE LET text_lower == Lower(text)
             keyword_matches == Len(Matches(VOICE_AI_KEYWORDS(cfg), text_lower))
         IN IF keyword_matches > 0 THEN Verdict(TRUE)
            ELSE IF AiVoiceCombination(text_lower) THEN Verdict(TRUE)
            ELSE Verdict(FALSE)

is_relevant_to_voice_ai(cfg, text) ==
    IF cfg = "package" THEN is_relevant_package(text)
    ELSE is_relevant_legacy(cfg, text)

\* No classifier call in progress.
IdleCls ==
    [pc |-> "idle", cfg |-> "package", text |-> "", ret |-> FALSE,
     raised |-> FALSE]

\* The call returns (or raises).
Classify ==
    /\ cls.pc = "start"
    /\ LET r == is_relevant_to_voice_ai(cls.cfg, cls.text)
       IN cls' = [cls EXCEPT !.pc = "done", !.ret = r.ret,
                             !.raised = r.raised]
    /\ UNCHANGED <<storeVars, pipe, otherVars>>

----------------------------------------------------------------------------
(* process_content *)

\* What fetch_article_content returns: None (any failure) or the page text.
Fetched == {NoneText, "tts ", "api "}

\* simple_summarize, and the texts the legacy process_content builds without
\* the chat model (the first sentences of the content joined and closed
\* with '.', "Summary not available. Title: ..."): never the empty string.
SomeSummary == "summary"

\* What the chat model replies to the summarization prompt: a text, blanks
\* only, or nothing (no API key is configured, or the chain raises).
LlmReplies == {"summary", " ", Absent}

\* processors/content_processor.py summarize_content: summary.strip() of the
\* reply, which is '' for a blank reply; the first sentences of the content
\* when there is no reply.
summarize_content(reply) ==
    IF reply = Absent THEN SomeSummary
    ELSE IF reply = " " THEN "" ELSE reply

\* The outcome of one process_content call: the item it returns, None, or
\* an exception.
Returned(item) == [outcome |-> "item", item |-> item]

ReturnedNone(item) == [outcome |-> "none", item |-> item]

Raised(item) == [outcome |-> "raise", item |-> item]

\* Variant: the content is summarized without being classified.
process_content_package_unclassified(item, fetched) ==
    LET content == IF item.content # "" THEN item.content
                   ELSE IF Falsy(fetched) THEN item.title ELSE fetched
    IN Returned([item EXCEPT !.content = content, !.summary = SomeSummary])

\* ai_voice_scraper/processors/content_processor.py: a relevant title is
\* enough; otherwise the content (the item's, else the fetched page) decides.
process_content_package(item, fetched) ==
    IF is_relevant_package(item.title).ret
    THEN LET content == IF item.content # "" THEN item.content
                        ELSE IF Falsy(fetched) THEN item.title ELSE fetched
         IN Returned([item EXCEPT !.content = content,
                                  !.summary = SomeSummary])
    ELSE IF item.content = "" /\ Falsy(fetched) THEN ReturnedNone(item)
    ELSE LET content == IF item.content # "" THEN item.content ELSE fetched
         IN IF ~is_relevant_package(content).ret
            THEN ReturnedNone([item EXCEPT !.content = content])
            ELSE Returned([item EXCEPT !.content = content,
                                       !.summary = SomeSummary])

\* processors/content_processor.py: the title must be relevant; a fetched
\* page must be relevant too, a failed fetch keeps the item. Imported the
\* way main.py and main_fixed.py import it (from src/), `config` is the
\* module src/config.py, `from config.keywords import ...` raises
\* ImportError and the classifier runs with the built-in table.
process_content_legacy(item, fetched, reply) ==
    IF is_relevant_legacy("builtin", item.title).ret
    THEN IF ~Falsy(fetched)
         THEN IF is_relevant_legacy("builtin", fetched).ret
              THEN Returned([item EXCEPT !.content = fetched,
                                         !.summary = summarize_content(reply)])
              ELSE ReturnedNone([item EXCEPT !.content = fetched])
         ELSE Returned([item EXCEPT !.summary = SomeSummary])
    ELSE ReturnedNone(item)

\* boom: something inside the call raises past its own handlers.
process_content(variant, item, fetched, reply, boom) ==
    IF boom THEN Raised(item)
    ELSE IF variant = "main_fixed"
    THEN process_content_legacy(item, fetched, reply)
    ELSE process_content_package(item, fetched)

----------------------------------------------------------------------------
(* run_pipeline *)

\* The three run_pipeline functions, each with its command-line entry point:
\* ai_voice_scraper/core/pipeline.py (cli.main), ai_voice_scraper/main.py
\* (main_cli) and main_fixed.py (main_cli).
Variants == {"package", "main", "main_fixed"}

\* The keys of sentiment_counts.
Labels == {"positive", "negative", "neutral"}

\* post_data['sentiment']: _analyze_sentiment_basic returns one of the three
\* labels; _generate_summary_and_sentiment returns whatever follows
\* "SENTIMENT:" in the model's reply, lower-cased ("mixed" stands for any
\* other word).
Sentiments == Labels \cup {"mixed"}

PipeArticle(u, t) ==
    [url |-> u, id |-> None, title |-> t, published |-> "recent",
     content |-> "", summary |-> Absent]

\* The articles a scrape can return: one with a relevant title, one without.
PipeNews == {PipeArticle("u1", "tts "), PipeArticle("u2", "api ")}

PipePosts ==
    [url : {"r1", "r2"}, id : {None}, content : {"x"}, sentiment : Sentiments,
     subreddit : {"s"}]

\* The lists of at most n records of S with pairwise different URLs (both
\* scrapers drop repeated URLs).
ListsOf(S, n) ==
    {s \in UNION {[1..k -> S] : k \in 0..n} :
        \A a, b \in 1..Len(s) : a # b => s[a].url # s[b].url}

NoResult ==
    [articles_found |-> -1, articles_processed |-> -1, reddit_posts |-> -1]

\* The process has not exited yet.
NoExit == -1

\* The module the name storage.db_manager is bound to when main_fixed.py or
\* main.py imports it: src/storage/db_manager.py as the repository has it,
\* which does not compile (line 49 declares USE_FILE_STORAGE global after
\* using it) and defines neither store_run_summary nor get_recent_runs, or
\* the package's ai_voice_scraper/storage/db_manager.py put in its place.
\* The package's own entry points always import the package's module.
StorageModules == {"legacy", "package"}

\* No run_pipeline call in progress.
IdlePipe ==
    [variant |-> "package", storage |-> "package", import_error |-> FALSE,
     crashed |-> FALSE,
     reddit_cfg |-> FALSE, email_cfg |-> FALSE,
     slack_cfg |-> FALSE, pc |-> "idle", news_items |-> <<>>, i |-> 0,
     cur |-> PipeArticle("u1", "tts "), processed_items |-> <<>>,
     reactions |-> <<>>, j |-> 0, emailed |-> FALSE, slacked |-> FALSE,
     raised |-> FALSE, ret |-> NoResult, fetch_failed |-> FALSE,
     exit |-> NoExit]

\* Where the loop over news_items goes after item i.
AfterItem(p) ==
    IF p.i + 1 > Len(p.news_items) THEN "reddit" ELSE "process"

\* `if processed_items or reactions`, then the email and Slack conditions.
SlackPc(p) == IF p.slack_cfg THEN "slack" ELSE "return"

NotifyPc(p) ==
    IF p.processed_items = <<>> /\ p.reactions = <<>> THEN "return"
    ELSE IF p.email_cfg THEN "email"
    ELSE SlackPc(p)

\* The imports: they succeed, raise ImportError (a component or one of its
\* dependencies is missing), or raise something else (the SyntaxError of
\* src/storage/db_manager.py, the ValueError of int(os.getenv('SMTP_PORT',
\* 587)) in notifiers/email_notifier.py and in
\* ai_voice_scraper/config/__init__.py). main_fixed.run_pipeline imports its components inside the
\* function, the scrapers and the processor before the storage module: an
\* ImportError is caught and {"error": ...} returned, and when it comes from
\* one of the first imports the storage module is not reached; any other
\* exception leaves run_pipeline, and with the repository's storage module
\* the SyntaxError is the best outcome. The package's entry points import
\* at module level: a failure there (as src/ has the package, with its
\* storage module broken off and its notifiers absent, the only outcome)
\* ends the process with status 1 before run_pipeline is called.
PipeImport ==
    /\ pipe.pc = "import"
    /\ \E outcome \in {"ok", "ImportError", "other"} :
          /\ pipe.storage = "legacy" => outcome # "ok"
          /\ IF outcome = "ok"
             THEN pipe' = [pipe EXCEPT !.pc = "scrape"]
             ELSE IF pipe.variant # "main_fixed"
             THEN pipe' = [pipe EXCEPT !.pc = "exited", !.crashed = TRUE,
                             !.exit = 1]
             ELSE IF outcome = "ImportError"
             THEN pipe' = [pipe EXCEPT !.pc = "done", !.import_error = TRUE]
             ELSE pipe' = [pipe EXCEPT !.pc = "raised", !.raised = TRUE]
    /\ UNCHANGED <<storeVars, cls, otherVars>>

\* Step 1: scrape_news_sources. core/pipeline.py and main_fixed.py catch an
\* exception and go on with news_items = []; ai_voice_scraper/main.py has
\* no try around the call.
PipeScrape ==
    /\ pipe.pc = "scrape"
    /\ \E failed \in BOOLEAN, news \in ListsOf(PipeNews, MaxItems) :
          /\ failed => news = <<>>
          /\ IF failed /\ pipe.variant = "main"
             THEN pipe' = [pipe EXCEPT !.fetch_failed = TRUE,
                             !.raised = TRUE, !.pc = "raised"]
             ELSE pipe' = [pipe EXCEPT !.news_items = news, !.i = 1,
                             !.fetch_failed = failed,
                             !.pc = IF news = <<>> THEN "reddit"
                                    ELSE "process"]
    /\ UNCHANGED <<storeVars, cls, otherVars>>

\* Step 2, first half: process_content(item); None and exceptions skip the
\* item.
PipeProcess ==
    /\ pipe.pc = "process"
    /\ \E fetched \in Fetched, reply \in LlmReplies, boom \in BOOLEAN :
          LET r == process_content(pipe.variant, pipe.news_items[pipe.i],
                                   fetched, reply, boom)
          IN IF r.outcome = "item"
             THEN pipe' = [pipe EXCEPT !.cur = r.item, !.pc = "store_news",
                             !.processed_items = Append(@, r.item)]
             ELSE pipe' = [pipe EXCEPT !.i = @ + 1, !.pc = AfterItem(pipe)]
    /\ UNCHANGED <<storeVars, cls, otherVars>>

\* Step 2, second half: await store_news_item(processed).
PipeStoreNews ==
    /\ pipe.pc = "store_news"
    /\ \E ff \in FileFaults, drop \in 0..2 :
          store_news_item(pipe.cur, ff, drop)
    /\ pipe' = [pipe EXCEPT !.i = @ + 1, !.pc = AfterItem(pipe)]
    /\ UNCHANGED <<cls, otherVars>>

\* Step 3: scrape_reddit. core/pipeline.py passes test_mode=..., which its
\* scrape_reddit(news_items=None) does not accept: TypeError, caught. The
\* posts of ai_voice_scraper/scrapers/reddit_scraper.py carry no sentiment,
\* so reaction.get('sentiment', 'neutral') reads "neutral" for them.
PipeReddit ==
    /\ pipe.pc = "reddit"
    /\ \E failed \in BOOLEAN, posts \in ListsOf(PipePosts, MaxPosts) :
          /\ (~pipe.reddit_cfg \/ pipe.variant = "package") => ~failed
          /\ (~pipe.reddit_cfg \/ pipe.variant = "package" \/ failed)
                => posts = <<>>
          /\ pipe.variant = "main" =>
                \A k \in 1..Len(posts) : posts[k].sentiment = "neutral"
          /\ pipe' = [pipe EXCEPT !.reactions = posts, !.j = 1,
                        !.pc = IF posts = <<>> THEN "sentiment"
                               ELSE "store_reaction"]
    /\ UNCHANGED <<storeVars, cls, otherVars>>

\* for reaction in reactions: await store_reaction(reaction)
PipeStoreReaction ==
    /\ pipe.pc = "store_reaction"
    /\ \E ff \in FileFaults, drop \in 0..2 :
          store_reaction(pipe.reactions[pipe.j], ff, drop)
    /\ pipe' = [pipe EXCEPT !.j = @ + 1,
                  !.pc = IF pipe.j + 1 > Len(pipe.reactions)
                         THEN "sentiment" ELSE "store_reaction"]
    /\ UNCHANGED <<cls, otherVars>>

\* sentiment_counts[sentiment] += 1, outside every try: a label that is not
\* a key raises KeyError out of run_pipeline.
PipeSentiment ==
    /\ pipe.pc = "sentiment"
    /\ IF \E k \in 1..Len(pipe.reactions) :
             pipe.reactions[k].sentiment \notin Labels
       THEN pipe' = [pipe EXCEPT !.pc = "raised", !.raised = TRUE]
       ELSE pipe' = [pipe EXCEPT !.pc = "run_summary"]
    /\ UNCHANGED <<storeVars, cls, otherVars>>

\* await store_run_summary(current_run_data)
PipeStoreRun ==
    /\ pipe.pc = "run_summary"
    /\ \E ff \in FileFaults, drop \in 0..3 :
          store_run_summary(RunData(Len(pipe.processed_items),
                                    Len(pipe.reactions)), ff, drop)
    /\ pipe' = [pipe EXCEPT !.pc = NotifyPc(pipe)]
    /\ UNCHANGED <<cls, otherVars>>

\* send_email_digest(digest). main_fixed.py calls notifiers/email_notifier.py,
\* which returns False at once when its own configuration is incomplete
\* (creds) and otherwise goes on to the trends; the package's notifier is
\* seen only through its call: it returns or raises.
PipeEmail ==
    /\ pipe.pc = "email"
    /\ \E creds \in BOOLEAN, ok \in BOOLEAN :
          IF pipe.variant # "main_fixed"
          THEN /\ creds
               /\ pipe' = [pipe EXCEPT !.emailed = ok, !.pc = SlackPc(pipe)]
          ELSE /\ ~ok
               /\ pipe' = [pipe EXCEPT
                     !.pc = IF creds THEN "email_trends" ELSE SlackPc(pipe)]
    /\ UNCHANGED <<storeVars, cls, otherVars>>

\* send_email_digest: analyze_current_trends -> get_recent_runs(limit=2)
PipeEmailTrends ==
    /\ pipe.pc = "email_trends"
    /\ \E ff \in FileFaults, drop \in 0..1 : get_recent_runs(2, ff, drop)
    /\ pipe' = [pipe EXCEPT !.pc = "email_store"]
    /\ UNCHANGED <<cls, otherVars>>

\* send_email_digest: await store_run_summary(current_run_data)
PipeEmailStore ==
    /\ pipe.pc = "email_store"
    /\ \E ff \in FileFaults, drop \in 0..3 :
          store_run_summary(RunData(Len(pipe.processed_items),
                                    Len(pipe.reactions)), ff, drop)
    /\ pipe' = [pipe EXCEPT !.pc = "email_send"]
    /\ UNCHANGED <<cls, otherVars>>

\* send_email_digest: the executive summary and the SMTP session; any
\* exception is caught and False returned.
PipeEmailSend ==
    /\ pipe.pc = "email_send"
    /\ \E ok \in BOOLEAN :
          pipe' = [pipe EXCEPT !.emailed = ok, !.pc = SlackPc(pipe)]
    /\ UNCHANGED <<storeVars, cls, otherVars>>

\* send_slack_digest(digest): returns True or False, or raises (caught).
PipeSlack ==
    /\ pipe.pc = "slack"
    /\ \E ok \in BOOLEAN :
          pipe' = [pipe EXCEPT !.slacked = ok, !.pc = "return"]
    /\ UNCHANGED <<storeVars, cls, otherVars>>

\* return {"articles_found": ..., "articles_processed": ..., ...}
PipeReturn ==
    /\ pipe.pc = "return"
    /\ pipe' = [pipe EXCEPT !.pc = "done",
                  !.ret = [articles_found |-> Len(pipe.news_items),
                           articles_processed |-> Len(pipe.processed_items),
                           reddit_posts |-> Len(pipe.reactions)]]
    /\ UNCHANGED <<storeVars, cls, otherVars>>

\* cli.main / main_cli: asyncio.run(run_pipeline(...)) inside try; with an
\* "error" key in the results 1 is returned, otherwise the counts are
\* printed and 0 returned; any exception is logged and 1 returned.
CliExit ==
    /\ pipe.pc \in {"done", "raised"}
    /\ pipe' = [pipe EXCEPT !.pc = "exited",
                  !.exit = IF pipe.pc = "raised" \/ pipe.import_error
                           THEN 1 ELSE 0]
    /\ UNCHANGED <<storeVars, cls, otherVars>>

----------------------------------------------------------------------------
(* TrendsAnalyzer *)

\* The largest count a run reports.
MaxCount == 3

\* The runs analyze_trends looks at: the current one and at most two from
\* get_recent_runs(limit=2).
MaxRunsAnalyzed == 3

RECURSIVE Sum(_)

Sum(s) == IF s = <<>> THEN 0 ELSE Head(s) + Sum(Tail(s))

\* _get_trend_direction for integer values. With h = len // 2 the code
\* compares sum(values[h:]) / (n - h) - sum(values[:h]) / h with 0.1 and
\* -0.1; both sides are multiplied by 10 * h * (n - h) here.
TrendOf(high, low) ==
    IF high THEN "improving" ELSE IF low THEN "declining" ELSE "stable"

get_trend_direction(values) ==
    LET n == Len(values)
        h == n \div 2
        first == Sum(SubSeq(values, 1, h))
        second == Sum(SubSeq(values, h + 1, n))
        scaled == 10 * (second * h - first * (n - h))
    IN IF n < 2 THEN "stable"
       ELSE TrendOf(scaled > h * (n - h), scaled < -(h * (n - h)))

\* activity_scores[0] - activity_scores[-1]
ChangeOf(values) ==
    IF Len(values) >= 2 THEN values[1] - values[Len(values)] ELSE 0

\* No analyze_trends call in progress. activity / articles: reddit_posts and
\* articles_processed of all_runs, the current run first.
IdleTrends ==
    [pc |-> "idle", activity |-> <<>>, articles |-> <<>>, available |-> FALSE,
     activity_trend |-> "stable", activity_change |-> 0,
     news_trend |-> "stable", news_change |-> 0]

\* [run.get(key, 0) for run in all_runs], all_runs = [current] + recent_runs
SeriesOf(current, recent_runs, key) ==
    <<current[key]>> \o [k \in 1..Len(recent_runs) |-> recent_runs[k][key]]

\* An earlier run stores its summary: the history analyze_trends reads, as
\* many runs as get_recent_runs(limit=2) returns.
TrendsStoreRun ==
    /\ trends.pc = "start"
    /\ clock < MaxRunsAnalyzed - 1
    /\ \E processed, posts \in 0..MaxCount :
          store_run_summary(RunData(processed, posts), "ok", 0)
    /\ UNCHANGED <<cls, pipe, trends, loop, scrape>>

\* analyze_trends(current_run_data): get_recent_runs(limit=2), which returns
\* [] when it fails, then the activity and news-volume series.
AnalyzeTrends ==
    /\ trends.pc = "start"
    /\ \E processed, posts \in 0..MaxCount, ff \in {"ok", "read"},
          drop \in {0, 1} :
          /\ get_recent_runs(2, ff, drop)
          /\ LET current == RunData(processed, posts)
                 activity == SeriesOf(current, last'.rows, "reddit_posts")
                 articles == SeriesOf(current, last'.rows,
                                      "articles_processed")
             IN trends' =
                  IF Len(activity) < 2
                  THEN [trends EXCEPT !.pc = "done", !.available = FALSE,
                          !.activity = activity, !.articles = articles]
                  ELSE [trends EXCEPT !.pc = "done", !.available = TRUE,
                          !.activity = activity, !.articles = articles,
                          !.activity_trend = get_trend_direction(activity),
                          !.activity_change = ChangeOf(activity),
                          !.news_trend = get_trend_direction(articles),
                          !.news_change = ChangeOf(articles)]
    /\ UNCHANGED <<cls, pipe, loop, scrape>>

----------------------------------------------------------------------------
(* main.py *)

\* How many runs main() is followed through.
MaxRuns == 2

\* The values of the environment variable RUN_ONCE (Absent: not set).
RunOnceValues == {Absent, "true", "True", "false"}

\* `os.getenv('RUN_ONCE', 'true').lower() == 'true'`
run_once(env) == Lower(IF env = Absent THEN "true" ELSE env) = "true"

\* What one scrape hands to run_news_pipeline, and what the Reddit and the
\* Twitter scraper hand to run_reaction_pipeline.
LoopNews == {PipeArticle("u1", "tts ")}

RedditReactions == {p \in PipePosts : p.url = "r1" /\ p.sentiment = "neutral"}

TwitterReactions == {p \in PipePosts : p.url = "r2" /\ p.sentiment = "neutral"}

\* The failures of the storage during a run: json.dump failing on the file
\* backend, the server going away before find_one on the MongoDB backend.
\* They are injected in the two store steps; the reads of a run are served.
LoopFileFaults == {"ok", "dump"}

LoopDrops == {0, 1}

\* A dict as analyze_sentiment returns it ({'sentiment': ..., 'score': ...,
\* 'analysis': ...}): not one of the labels.
SentimentDict == "dict"

\* What analyze_sentiment returns: the dict it builds without an API key or
\* after an exception, or eval(response.content), which is whatever the
\* chat model's reply evaluates to: a dict, or a quoted label such as
\* "positive", "negative" or "neutral" (any other value is, like the dict,
\* no key of the tally).
AnalyzedSentiments == {SentimentDict} \cup Labels

\* main() is not running.
IdleLoop ==
    [pc |-> "idle", storage |-> "package", env |-> Absent, runs |-> 0,
     reddit_cfg |-> FALSE,
     twitter_cfg |-> FALSE, slack_cfg |-> FALSE, email_cfg |-> FALSE,
     raw |-> <<>>, processed |-> <<>>, k |-> 0, reactions |-> <<>>,
     slack |-> FALSE, email |-> FALSE, failed |-> FALSE]

\* After run_full_pipeline returned: main() is over in run-once mode, and
\* sleeps for 24 hours in continuous mode.
AfterRunPc(p) == IF run_once(p.env) THEN "exit" ELSE "sleep"

\* `python main.py`: the imports at the top of the file. With the
\* repository's storage module the import of storage.db_manager raises
\* SyntaxError: main() is never defined and the process ends.
LoopImport ==
    /\ loop.pc = "import"
    /\ loop' = [loop EXCEPT !.pc = IF loop.storage = "legacy" THEN "crashed"
                                  ELSE "main"]
    /\ UNCHANGED <<storeVars, cls, pipe, trends, scrape>>

\* main(): `await scraper.run_full_pipeline()`, the first time or at the top
\* of `while True`.
LoopRunStart ==
    /\ loop.pc = "main"
    /\ loop.runs < MaxRuns
    /\ loop' = [loop EXCEPT !.pc = "news", !.runs = @ + 1, !.raw = <<>>,
                  !.processed = <<>>, !.k = 0, !.reactions = <<>>,
                  !.slack = FALSE, !.email = FALSE]
    /\ UNCHANGED <<storeVars, cls, pipe, trends, scrape>>

\* run_news_pipeline, step 1: scrape_news_sources; an exception ends the
\* news pipeline with [].
LoopScrape ==
    /\ loop.pc = "news"
    /\ \E boom \in BOOLEAN, raw \in ListsOf(LoopNews, MaxItems) :
          /\ boom => raw = <<>>
          /\ loop' = [loop EXCEPT !.raw = raw, !.k = 1,
                        !.failed = @ \/ boom,
                        !.pc = IF raw = <<>> THEN "recent" ELSE "process"]
    /\ UNCHANGED <<storeVars, cls, pipe, trends, scrape>>

\* run_news_pipeline, step 2: process_content(item); None and exceptions
\* skip the item.
LoopProcess ==
    /\ loop.pc = "process"
    /\ \E fetched \in Fetched, reply \in LlmReplies, boom \in BOOLEAN :
          LET r == process_content("main_fixed", loop.raw[loop.k], fetched,
                                   reply, boom)
              items == IF r.outcome = "item" THEN Append(loop.processed, r.item)
                       ELSE loop.processed
              more == loop.k < Len(loop.raw)
          IN loop' = [loop EXCEPT !.processed = items,
                        !.failed = @ \/ boom,
                        !.k = IF more THEN @ + 1 ELSE 1,
                        !.pc = IF more THEN "process"
                               ELSE IF items = <<>> THEN "recent"
                               ELSE "store"]
    /\ UNCHANGED <<storeVars, cls, pipe, trends, scrape>>

\* run_news_pipeline, step 3: `if await store_news_item(item)`.
LoopStoreNews ==
    /\ loop.pc = "store"
    /\ \E ff \in LoopFileFaults, drop \in LoopDrops :
          /\ store_news_item(loop.processed[loop.k], ff, drop)
          /\ loop' = [loop EXCEPT !.k = @ + 1,
                        !.failed = @ \/ ff # "ok" \/ drop # 0,
                        !.pc = IF loop.k < Len(loop.processed)
                               THEN "store" ELSE "recent"]
    /\ UNCHANGED <<cls, pipe, trends, scrape>>

\* run_reaction_pipeline: get_recent_news(days=3)
LoopRecentNews ==
    /\ loop.pc = "recent"
    /\ get_recent_news("ok", 0)
    /\ loop' = [loop EXCEPT !.pc = "social"]
    /\ UNCHANGED <<cls, pipe, trends, scrape>>

\* run_reaction_pipeline, steps 1 and 2: scrape_reddit and scrape_twitter,
\* each only if configured, each inside its own try.
LoopSocial ==
    /\ loop.pc = "social"
    /\ \E rfail, tfail \in BOOLEAN,
          reddit \in ListsOf(RedditReactions, MaxPosts),
          twitter \in ListsOf(TwitterReactions, MaxPosts) :
          /\ ~loop.reddit_cfg => ~rfail
          /\ (~loop.reddit_cfg \/ rfail) => reddit = <<>>
          /\ ~loop.twitter_cfg => ~tfail
          /\ (~loop.twitter_cfg \/ tfail) => twitter = <<>>
          /\ loop' = [loop EXCEPT !.reactions = reddit \o twitter, !.k = 1,
                        !.failed = @ \/ rfail \/ tfail,
                        !.pc = IF reddit \o twitter = <<>> THEN "slack"
                               ELSE "store_reaction"]
    /\ UNCHANGED <<storeVars, cls, pipe, trends, scrape>>

\* run_reaction_pipeline, step 3: reaction['sentiment'] = analyze_sentiment
\* (which catches its exceptions) and `if await store_reaction(reaction)`.
LoopStoreReaction ==
    /\ loop.pc = "store_reaction"
    /\ \E sentiment \in AnalyzedSentiments, ff \in LoopFileFaults,
          drop \in LoopDrops :
          /\ store_reaction([loop.reactions[loop.k] EXCEPT
                                !.sentiment = sentiment], ff, drop)
          /\ loop' = [loop EXCEPT !.k = @ + 1,
                        !.reactions[loop.k].sentiment = sentiment,
                        !.failed = @ \/ ff # "ok" \/ drop # 0,
                        !.pc = IF loop.k < Len(loop.reactions)
                               THEN "store_reaction" ELSE "slack"]
    /\ UNCHANGED <<cls, pipe, trends, scrape>>

\* generate_and_send_digest: send_slack_digest if SLACK_API_TOKEN is set; it
\* returns True or False.
LoopSlack ==
    /\ loop.pc = "slack"
    /\ \E ok \in BOOLEAN :
          /\ ~loop.slack_cfg => ~ok
          /\ loop' = [loop EXCEPT !.slack = ok,
                        !.failed = @ \/ (loop.slack_cfg /\ ~ok),
                        !.pc = IF loop.email_cfg THEN "email_tally"
                               ELSE "finish"]
    /\ UNCHANGED <<storeVars, cls, pipe, trends, scrape>>

\* send_email_digest: calculate_sentiment_summary(digest['reactions']).
\* `sentiment_counts[sentiment] += 1` raises for a sentiment that is not a
\* key (a dict analyze_sentiment returned is not even hashable), and the
\* except of send_email_digest returns False; with labels only the tally is
\* made and send_email_digest goes on.
LoopEmailTally ==
    /\ loop.pc = "email_tally"
    /\ IF \E k \in 1..Len(loop.reactions) :
             loop.reactions[k].sentiment \notin Labels
       THEN loop' = [loop EXCEPT !.email = FALSE, !.failed = TRUE,
                       !.pc = "finish"]
       ELSE loop' = [loop EXCEPT !.pc = "email_trends"]
    /\ UNCHANGED <<storeVars, cls, pipe, trends, scrape>>

\* send_email_digest: analyze_current_trends -> get_recent_runs(limit=2)
LoopEmailTrends ==
    /\ loop.pc = "email_trends"
    /\ get_recent_runs(2, "ok", 0)
    /\ loop' = [loop EXCEPT !.pc = "email_store"]
    /\ UNCHANGED <<cls, pipe, trends, scrape>>

\* send_email_digest: await store_run_summary(current_run_data)
LoopEmailStore ==
    /\ loop.pc = "email_store"
    /\ store_run_summary(RunData(Len(loop.processed), Len(loop.reactions)),
                         "ok", 0)
    /\ loop' = [loop EXCEPT !.pc = "email_send"]
    /\ UNCHANGED <<cls, pipe, trends, scrape>>

\* send_email_digest: the executive summary and the SMTP session; it returns
\* True, or False after any exception.
LoopEmailSend ==
    /\ loop.pc = "email_send"
    /\ \E ok \in BOOLEAN :
          loop' = [loop EXCEPT !.email = ok, !.pc = "finish",
                     !.failed = @ \/ ~ok]
    /\ UNCHANGED <<storeVars, cls, pipe, trends, scrape>>

\* run_full_pipeline returns and main() goes on.
LoopRunEnd ==
    /\ loop.pc = "finish"
    /\ loop' = [loop EXCEPT !.pc = AfterRunPc(loop)]
    /\ UNCHANGED <<storeVars, cls, pipe, trends, scrape>>

\* `await asyncio.sleep(24 * 60 * 60)` returns.
LoopWake ==
    /\ loop.pc = "sleep"
    /\ loop' = [loop EXCEPT !.pc = "main"]
    /\ UNCHANGED <<storeVars, cls, pipe, trends, scrape>>

NextLoop ==
    \/ LoopImport
    \/ LoopRunStart
    \/ LoopScrape
    \/ LoopProcess
    \/ LoopStoreNews
    \/ LoopRecentNews
    \/ LoopSocial
    \/ LoopStoreReaction
    \/ LoopSlack
    \/ LoopEmailTally
    \/ LoopEmailTrends
    \/ LoopEmailStore
    \/ LoopEmailSend
    \/ LoopRunEnd
    \/ LoopWake

----------------------------------------------------------------------------
(* scrape_news_sources *)

\* NEWS_SOURCES has at most MaxSources entries.
MaxSources == 3

\* The URLs one source returns, in order, repetitions included.
UrlLists == UNION {[1..m -> Urls] : m \in 0..Cardinality(Urls)}

\* scrape_rss_source / scrape_web_source of source k as seen by
\* asyncio.gather with return_exceptions=True: an exception object (ok is
\* FALSE) or a list of articles.
SourceFailed == [ok |-> FALSE, articles |-> <<>>]

SourceReturned(k, urls) ==
    [ok |-> TRUE,
     articles |-> [i \in 1..Len(urls) |-> [url |-> urls[i], source |-> k]]]

\* NEWS_SOURCES lists its RSS feeds before its web pages.
SourceTypes(n) ==
    {t \in [1..n -> {"rss", "web"}] :
        \A a, b \in 1..n : (a < b /\ t[a] = "web") => t[b] = "web"}

RECURSIVE Gathered(_, _, _, _)

\* all_articles after the pass over the sources of one type, from source k
\* on: `if isinstance(result, list): all_articles.extend(result)`.
Gathered(types, results, type, k) ==
    IF k > Len(types) THEN <<>>
    ELSE (IF types[k] = type /\ results[k].ok THEN results[k].articles
          ELSE <<>>) \o Gathered(types, results, type, k + 1)

\* Variant: nothing is removed.
Unique_keep_all(all) == all

\* `if article['url'] not in seen_urls: ... unique_articles.append(article)`
Unique(all) ==
    LET F[i \in 0..Len(all)] ==
          IF i = 0 THEN <<>>
          ELSE IF \E k \in 1..Len(F[i - 1]) : F[i - 1][k].url = all[i].url
               THEN F[i - 1]
               ELSE Append(F[i - 1], all[i])
    IN F[Len(all)]

\* No scrape_news_sources call in progress.
IdleScrape ==
    [pc |-> "idle", types |-> <<>>, results |-> <<>>, session_ok |-> TRUE,
     ret |-> <<>>]

\* scrape_news_sources: the RSS pass, the aiohttp session (its set-up raises
\* out of the function when it fails), the web pass, the removal of repeated
\* URLs.
ScrapeNewsSources ==
    /\ scrape.pc = "start"
    /\ scrape' =
         IF ~scrape.session_ok THEN [scrape EXCEPT !.pc = "raised"]
         ELSE [scrape EXCEPT !.pc = "done",
                 !.ret = Unique(Gathered(scrape.types, scrape.results, "rss", 1)
                             \o Gathered(scrape.types, scrape.results, "web", 1))]
    /\ UNCHANGED <<storeVars, cls, pipe, trends, loop>>

----------------------------------------------------------------------------
(* Specifications *)

\* Module import: the motor client is constructed, or the import/constructor
\* raises and the module starts in file storage.
Init ==
    /\ client \in {"motor", "None"}
    /\ USE_FILE_STORAGE = (client = "None")
    /\ primaryUp \in BOOLEAN
    /\ news_file = <<>> /\ news_coll = <<>>
    /\ reactions_file = <<>> /\ reactions_coll = <<>>
    /\ runs_file = <<>> /\ runs_coll = <<>>
    /\ clock = 0
    /\ nextId = 1
    /\ faults = 0
    /\ tasks = [t \in Tasks |-> IdleTask]
    /\ last = NoCall
    /\ cls = IdleCls
    /\ pipe = IdlePipe
    /\ trends = IdleTrends /\ loop = IdleLoop /\ scrape = IdleScrape

KnownIds == {None} \cup (1..(nextId - 1))

NewsItems ==
    [url : Urls \cup {Absent}, id : KnownIds, title : Titles,
     published : {"recent"}]

Reactions == [url : Urls \cup {Absent}, id : KnownIds, content : Contents]

(* News items only: upsert by URL. *)
NewsStore ==
    /\ clock < MaxNewsCalls
    /\ \E item \in NewsItems, ff \in FileFaults, drop \in 0..2 :
          store_news_item(item, ff, drop)
    /\ UNCHANGED <<cls, pipe, otherVars>>

NextNews == NewsStore \/ PrimaryRecovers \/ PrimaryFails

SpecNews == Init /\ [][NextNews]_vars

(* Reactions only. *)
ReactionStore ==
    /\ clock < MaxReactCalls
    /\ \E reaction \in Reactions, ff \in FileFaults, drop \in 0..2 :
          store_reaction(reaction, ff, drop)
    /\ UNCHANGED <<cls, pipe, otherVars>>

NextReact == ReactionStore \/ PrimaryRecovers \/ PrimaryFails

SpecReact == Init /\ [][NextReact]_vars

(* Run summaries only. *)
RunStore ==
    /\ clock < MaxRunCalls
    /\ \E ff \in FileFaults, drop \in 0..3 :
          store_run_summary(EmptyRun, ff, drop)
    /\ UNCHANGED <<cls, pipe, otherVars>>

RunsRead ==
    /\ \E limit \in Limits, ff \in FileFaults, drop \in 0..1 :
              get_recent_runs(limit, ff, drop)
    /\ UNCHANGED <<cls, pipe, otherVars>>

NextRuns == RunStore \/ RunsRead \/ PrimaryRecovers \/ PrimaryFails

SpecRuns == Init /\ [][NextRuns]_vars

(* The whole store: every handler, sequential callers (core/pipeline.py and
   main.py await each call before making the next). *)
\* One article and one post, as scraped (no _id yet), are enough to drive
\* the backend selection.
ScrapedNews ==
    [url : {"u1"}, id : {None}, title : {"a"}, published : {"recent", "old"}]

ScrapedReactions == [url : {"u1"}, id : {None}, content : {"x"}]

StoreNews ==
    /\ clock < MaxCalls
    /\ \E item \in ScrapedNews, ff \in FileFaults, drop \in 0..2 :
          store_news_item(item, ff, drop)
    /\ UNCHANGED <<cls, pipe, otherVars>>

StoreReaction ==
    /\ clock < MaxCalls
    /\ \E reaction \in ScrapedReactions, ff \in FileFaults, drop \in 0..2 :
          store_reaction(reaction, ff, drop)
    /\ UNCHANGED <<cls, pipe, otherVars>>

StoreRun ==
    /\ clock < MaxCalls
    /\ \E ff \in FileFaults, drop \in 0..3 :
          store_run_summary(EmptyRun, ff, drop)
    /\ UNCHANGED <<cls, pipe, otherVars>>

ReadRuns ==
    /\ \E limit \in Limits, ff \in FileFaults, drop \in 0..1 :
              get_recent_runs(limit, ff, drop)
    /\ UNCHANGED <<cls, pipe, otherVars>>

ReadNews ==
    /\ \E ff \in FileFaults, drop \in 0..1 : get_recent_news(ff, drop)
    /\ UNCHANGED <<cls, pipe, otherVars>>

Next ==
    \/ StoreNews
    \/ StoreReaction
    \/ StoreRun
    \/ ReadRuns
    \/ ReadNews
    \/ PrimaryRecovers
    \/ PrimaryFails

Spec == Init /\ [][Next]_vars

(* News items with every kind of published_date, and get_recent_news. *)
DatedNews == [url : Urls, id : {None}, title : {"a"}, published : Published]

StoreDated ==
    /\ clock < MaxNewsCalls
    /\ \E item \in DatedNews, ff \in FileFaults, drop \in 0..2 :
          store_news_item(item, ff, drop)
    /\ UNCHANGED <<cls, pipe, otherVars>>

NextRecent == StoreDated \/ ReadNews \/ PrimaryRecovers \/ PrimaryFails

SpecRecent == Init /\ [][NextRecent]_vars

(* Two store_news_item coroutines in flight on one event loop. *)
Begin ==
    /\ \E t \in Tasks, item \in NewsItems, ff \in FileFaults :
          TaskBegin(t, item, ff)
    /\ UNCHANGED <<cls, pipe, otherVars>>

Ping ==
    /\ \E t \in Tasks, ff \in FileFaults : TaskPing(t, ff)
    /\ UNCHANGED <<cls, pipe, otherVars>>

Find ==
    /\ \E t \in Tasks : TaskFind(t)
    /\ UNCHANGED <<cls, pipe, otherVars>>

Write ==
    /\ \E t \in Tasks : TaskWrite(t)
    /\ UNCHANGED <<cls, pipe, otherVars>>

NextConc == Begin \/ Ping \/ Find \/ Write \/ PrimaryRecovers \/ PrimaryFails

SpecConc == Init /\ [][NextConc]_vars

(* Records that already carry an identifier or a stored_at value. *)
\* A stored_at value from before the first call (the clock starts at 0).
EarlierStamp == -1

StampedNews ==
    [url : Urls, id : KnownIds, title : {"a"}, published : {"recent"}]
    \cup [url : Urls, id : KnownIds, title : {"a"}, published : {"recent"},
          stored_at : {EarlierStamp}]

StampedReactions ==
    [url : {"u1"}, id : KnownIds, content : Contents]
    \cup [url : {"u1"}, id : KnownIds, content : Contents,
          stored_at : {EarlierStamp}]

StampNews ==
    /\ clock < MaxCalls
    /\ \E item \in StampedNews, ff \in FileFaults, drop \in 0..2 :
          store_news_item(item, ff, drop)
    /\ UNCHANGED <<cls, pipe, otherVars>>

StampReaction ==
    /\ clock < MaxCalls
    /\ \E reaction \in StampedReactions, ff \in FileFaults, drop \in 0..2 :
          store_reaction(reaction, ff, drop)
    /\ UNCHANGED <<cls, pipe, otherVars>>

NextStamp == StampNews \/ StampReaction \/ PrimaryRecovers \/ PrimaryFails

SpecStamp == Init /\ [][NextStamp]_vars

(* The classifier applied to one text under one keyword configuration. *)
\* Pieces of text: a keyword both modules call primary, one that is primary
\* in the package and a company name in config/keywords.py, a company name
\* only config/keywords.py knows, a technical term, a phrase the package
\* lists (twice) as secondary, a context keyword, a sentence end and an
\* upper-case word.
Fragments ==
    {"tts ", "elevenlabs ", "descript ", "wavenet ", "audio model ",
     "api ", ". ", "AI "}

\* The texts of the specification's scenarios.
Scenarios ==
    {"ElevenLabs launches new text-to-speech API",
     "Tesla announces new Autopilot features",
     "Our new AI model improves efficiency"}

RECURSIVE TextsOf(_)
\* The concatenations of at most n fragments.
TextsOf(n) ==
    IF n = 0 THEN {""}
    ELSE TextsOf(n - 1) \cup {t \o f : t \in TextsOf(n - 1), f \in Fragments}

Texts == TextsOf(MaxFragments) \cup Scenarios \cup {NoneText}

InitClassify ==
    /\ client = "motor" /\ USE_FILE_STORAGE = FALSE /\ primaryUp = TRUE
    /\ news_file = <<>> /\ news_coll = <<>>
    /\ reactions_file = <<>> /\ reactions_coll = <<>>
    /\ runs_file = <<>> /\ runs_coll = <<>>
    /\ clock = 0 /\ nextId = 1 /\ faults = 0
    /\ tasks = [t \in Tasks |-> IdleTask]
    /\ last = NoCall
    /\ cls \in [pc : {"start"}, cfg : Configs, text : Texts, ret : {FALSE},
                 raised : {FALSE}]
    /\ pipe = IdlePipe
    /\ trends = IdleTrends /\ loop = IdleLoop /\ scrape = IdleScrape

NextClassify == Classify

SpecClassify == InitClassify /\ [][NextClassify]_vars

(* One run_pipeline execution against the store. *)
InitPipe ==
    /\ client \in {"motor", "None"}
    /\ USE_FILE_STORAGE = (client = "None")
    /\ primaryUp \in BOOLEAN
    /\ news_file = <<>> /\ news_coll = <<>>
    /\ reactions_file = <<>> /\ reactions_coll = <<>>
    /\ runs_file = <<>> /\ runs_coll = <<>>
    /\ clock = 0 /\ nextId = 1 /\ faults = 0
    /\ tasks = [t \in Tasks |-> IdleTask]
    /\ last = NoCall
    /\ cls = IdleCls
    /\ trends = IdleTrends /\ loop = IdleLoop /\ scrape = IdleScrape
    /\ \E v \in Variants, m \in StorageModules, r, e, k \in BOOLEAN :
          /\ v # "main_fixed" => m = "package"
          /\ pipe = [IdlePipe EXCEPT !.variant = v, !.storage = m,
                       !.reddit_cfg = r, !.email_cfg = e, !.slack_cfg = k,
                       !.pc = "import"]

NextPipe ==
    \/ PipeImport
    \/ PipeScrape
    \/ PipeProcess
    \/ PipeStoreNews
    \/ PipeReddit
    \/ PipeStoreReaction
    \/ PipeSentiment
    \/ PipeStoreRun
    \/ PipeEmail
    \/ PipeEmailTrends
    \/ PipeEmailStore
    \/ PipeEmailSend
    \/ PipeSlack
    \/ PipeReturn
    \/ CliExit

SpecPipe == InitPipe /\ [][NextPipe]_vars

(* main() of main.py. Every awaited call returns or raises; the event loop
   then resumes main(), so the steps of main() are taken under weak
   fairness. *)
InitLoop ==
    /\ client \in {"motor", "None"}
    /\ USE_FILE_STORAGE = (client = "None")
    /\ primaryUp = TRUE
    /\ news_file = <<>> /\ news_coll = <<>>
    /\ reactions_file = <<>> /\ reactions_coll = <<>>
    /\ runs_file = <<>> /\ runs_coll = <<>>
    /\ clock = 0 /\ nextId = 1 /\ faults = 0
    /\ tasks = [t \in Tasks |-> IdleTask]
    /\ last = NoCall
    /\ cls = IdleCls /\ pipe = IdlePipe
    /\ trends = IdleTrends /\ scrape = IdleScrape
    /\ \E m \in StorageModules, env \in RunOnceValues, reddit \in BOOLEAN :
          \* Reddit and Slack are configured, or Twitter and e-mail
          loop = [IdleLoop EXCEPT !.pc = "import", !.storage = m, !.env = env,
                    !.reddit_cfg = reddit, !.twitter_cfg = ~reddit,
                    !.slack_cfg = reddit, !.email_cfg = ~reddit]

SpecLoop == InitLoop /\ [][NextLoop]_vars /\ WF_vars(NextLoop)

(* scrape_news_sources applied to one outcome per source. *)
InitScrape ==
    /\ client = "motor" /\ USE_FILE_STORAGE = FALSE /\ primaryUp = TRUE
    /\ news_file = <<>> /\ news_coll = <<>>
    /\ reactions_file = <<>> /\ reactions_coll = <<>>
    /\ runs_file = <<>> /\ runs_coll = <<>>
    /\ clock = 0 /\ nextId = 1 /\ faults = 0
    /\ tasks = [t \in Tasks |-> IdleTask]
    /\ last = NoCall
    /\ cls = IdleCls /\ pipe = IdlePipe
    /\ trends = IdleTrends /\ loop = IdleLoop
    /\ \E n \in 1..MaxSources :
          \E t \in SourceTypes(n), ok \in BOOLEAN :
             \E failed \in [1..n -> BOOLEAN], urls \in [1..n -> UrlLists] :
                /\ \A k \in 1..n : failed[k] => urls[k] = <<>>
                /\ scrape = [IdleScrape EXCEPT !.pc = "start", !.types = t,
                      !.session_ok = ok,
                      !.results = [k \in 1..n |->
                         IF failed[k] THEN SourceFailed
                         ELSE SourceReturned(k, urls[k])]]

NextScrape == ScrapeNewsSources

SpecScrape == InitScrape /\ [][NextScrape]_vars

(* analyze_trends applied to one history of runs. *)
InitTrends ==
    /\ client \in {"motor", "None"}
    /\ USE_FILE_STORAGE = (client = "None")
    /\ primaryUp = TRUE
    /\ news_file = <<>> /\ news_coll = <<>>
    /\ reactions_file = <<>> /\ reactions_coll = <<>>
    /\ runs_file = <<>> /\ runs_coll = <<>>
    /\ clock = 0 /\ nextId = 1 /\ faults = 0
    /\ tasks = [t \in Tasks |-> IdleTask]
    /\ last = NoCall
    /\ cls = IdleCls /\ pipe = IdlePipe
    /\ loop = IdleLoop /\ scrape = IdleScrape
    /\ trends = [IdleTrends EXCEPT !.pc = "start"]

NextTrends == TrendsStoreRun \/ AnalyzeTrends \/ PrimaryFails

SpecTrends == InitTrends /\ [][NextTrends]_vars

----------------------------------------------------------------------------
(* Properties *)

StoreOps == {"store_news_item", "store_reaction", "store_run_summary"}

Min(a, b) == IF a <= b THEN a ELSE b

\* The backend the last call used, as it is now.
ServedNews == IF last.served = "file" THEN news_file ELSE news_coll

ServedRuns == IF last.served = "file" THEN runs_file ELSE runs_coll

\* The indices of the records of s stored under URL u.
UrlHits(s, u) == {i \in 1..Len(s) : s[i].url = u}

\* The last call ran with no I/O failure injected into it.
LastCallClean == last.ff = "ok" /\ last.drop = 0

\* C1: a call made in file storage while the primary (whose handle was
\* constructed) is reachable again pings it, is served by it, and the store
\* is back in PRIMARY_ACTIVE.
C1_RecoversOnNextCall ==
    (last.op # "none" /\ last.fbBefore /\ last.upBefore /\ client = "motor")
        => (last.probed /\ last.served = "mongo" /\ ~USE_FILE_STORAGE)

\* C2: a call that began in PRIMARY_ACTIVE and met an unreachable primary,
\* at the ping or at a later operation, is served by the file store in the
\* same call and returns normally rather than None / [].
C2_NeverFailsOnUnavailability ==
    (last.op # "none" /\ ~last.fbBefore /\ (~last.upBefore \/ last.drop # 0))
        => (last.served = "file" /\ ~last.raised)

\* C3: a store_news_item call for an item with a URL, made when the handle
\* was never constructed or the ping has failed (before or in this call),
\* returns an identifier and the record is in the news file afterwards.  The
\* file must be writable: the claim is about losing the primary, not the disk.
C3_FallbackStoreSucceeds ==
    (/\ last.op = "store_news_item"
     /\ (last.fbBefore \/ ~last.upBefore)
     /\ last.arg.url # Absent
     /\ SaveOk(last.ff))
        => /\ last.ret # None
           /\ last.ret = last.item.id
           /\ last.served = "file"
           /\ \E i \in 1..Len(news_file) : news_file[i] = last.item

\* The ping failed in this very call and the item went to the file.
C3_Witness ==
    /\ last.op = "store_news_item" /\ ~last.fbBefore /\ ~last.upBefore
    /\ last.probed /\ last.ret # None
    /\ \E i \in 1..Len(news_file) : news_file[i] = last.item

\* C4 as stated: after a store_news_item call (no I/O failure, a freshly
\* scraped item with a URL) the backend that served it holds exactly one
\* record with that URL, and the record carries the item's fields.
C4_OneRecordPerUrlLatestFields ==
    (/\ last.op = "store_news_item" /\ LastCallClean
     /\ last.arg.url # Absent /\ last.arg.id = None)
        => /\ Cardinality(UrlHits(ServedNews, last.arg.url)) = 1
           /\ \A i \in UrlHits(ServedNews, last.arg.url) :
                 /\ ServedNews[i].title = last.arg.title
                 /\ ServedNews[i].published = last.arg.published

\* C5 as stated: when the URL was already stored in the serving backend the
\* call returns the stored record's identifier and the record keeps it; when
\* the URL is new the call returns the freshly generated identifier.
C5_IdentifierStableOnUpdate ==
    (/\ last.op = "store_news_item" /\ LastCallClean
     /\ last.arg.url # Absent /\ last.arg.id = None)
        => IF last.prior.id # None
           THEN /\ last.ret = last.prior.id
                /\ \A i \in UrlHits(ServedNews, last.arg.url) :
                      ServedNews[i].id = last.prior.id
           ELSE last.ret = last.item.id

\* C6 as stated: two coroutines that stored freshly scraped items under the
\* same URL, both returning an identifier from the same backend, leave
\* exactly one record for that URL there, with the title of one of them.
C6_ConcurrentUpsertsLeaveOneRecord ==
    (/\ \A t \in Tasks : tasks[t].pc = "done" /\ tasks[t].ret # None
     /\ tasks[1].item.url = tasks[2].item.url
     /\ tasks[1].served = tasks[2].served)
        => LET b == IF tasks[1].served = "file" THEN news_file ELSE news_coll
               hits == UrlHits(b, tasks[1].item.url)
           IN /\ Cardinality(hits) = 1
              /\ \A i \in hits : b[i].title \in {tasks[1].item.title,
                                                tasks[2].item.title}

\* C7 as stated: store_reaction treats a fresh reaction as an already stored
\* record only if both carry the same URL, or the reaction has no URL and the
\* contents are equal.
C7_ReactionNaturalKey ==
    (/\ last.op = "store_reaction" /\ LastCallClean
     /\ last.arg.id = None /\ last.prior.id # None)
        => \/ (last.arg.url # Absent /\ last.prior.url = last.arg.url)
           \/ (last.arg.url = Absent /\ last.prior.content = last.arg.content)

\* C8: after any sequence of calls the backend that served the last one
\* holds at most RETENTION run summaries.
C8_BoundedRunHistory ==
    last.op # "none" => Len(ServedRuns) <= RETENTION

\* C9: get_recent_runs(limit), when it can read its backend, returns
\* min(limit, stored) summaries of that backend, newest first, and every
\* summary it leaves out is older than every one it returns.
C9_RecentRunsNewestFirst ==
    (last.op = "get_recent_runs" /\ ~last.raised /\ last.ff = "ok")
        => /\ Len(last.rows) = Min(last.arg, Len(ServedRuns))
           /\ SeqToSet(last.rows) \subseteq SeqToSet(ServedRuns)
           /\ \A k \in 1..(Len(last.rows) - 1) :
                 last.rows[k].timestamp > last.rows[k + 1].timestamp
           /\ \A r \in SeqToSet(ServedRuns) \ SeqToSet(last.rows) :
                 \A q \in SeqToSet(last.rows) : r.timestamp < q.timestamp

\* A read that had to order and to cut: more summaries stored than asked for.
C9_Witness ==
    /\ last.op = "get_recent_runs" /\ ~last.raised /\ last.ff = "ok"
    /\ last.arg >= 2 /\ Len(last.rows) = last.arg
    /\ Len(ServedRuns) > last.arg

\* C10 as stated: a store call whose record could not be persisted in the
\* backend that served it (the file could not be written, or the primary
\* failed during the call) returns None.
C10_FailedSaveReturnsNone ==
    (last.op \in StoreOps /\ (~SaveOk(last.ff) \/ last.drop # 0))
        => last.ret = None

\* C11 as stated: store_news_item called with an item that has no URL, in a
\* call with no I/O failure, returns a non-null identifier and the record is
\* in the backend that served the call.
C11_MissingUrlStored ==
    (last.op = "store_news_item" /\ LastCallClean /\ last.arg.url = Absent)
        => /\ last.ret # None
           /\ \E i \in 1..Len(ServedNews) : ServedNews[i].id = last.ret

\* C12 as stated: a get_recent_news call with no I/O failure returns every
\* stored item of the serving backend whose published_date is inside the
\* window, missing or unparseable (everything but a parseable date before
\* the cutoff).
C12_RecentNewsFailOpen ==
    (last.op = "get_recent_news" /\ LastCallClean)
        => \A i \in 1..Len(ServedNews) :
              ServedNews[i].published \notin {"old", "offset", "lowered"}
                  => ServedNews[i] \in SeqToSet(last.rows)

----------------------------------------------------------------------------
(* Properties of the classifier *)

ClsDone == cls.pc = "done"

\* The classified text in lower case ("" for None).
ClsLower == IF cls.text = NoneText THEN "" ELSE Lower(cls.text)

\* The entries of each table of the call's configuration found in the text.
PrimaryHits == Matches(PRIMARY_VOICE_AI_KEYWORDS(cls.cfg), ClsLower)

AllHits == Matches(ALL_VOICE_AI_KEYWORDS(cls.cfg), ClsLower)

ContextHits == Matches(CONTEXT_KEYWORDS(cls.cfg), ClsLower)

SentenceEnds == {".", "!", "?"}

RECURSIVE SplitSentences(_, _)
\* The sentences of s (split on '.', '!', '?'), cur being the sentence read
\* so far.
SplitSentences(s, cur) ==
    IF s = "" THEN {cur}
    ELSE IF SubSeq(s, 1, 1) \in SentenceEnds
    THEN {cur} \cup SplitSentences(SubSeq(s, 2, Len(s)), "")
    ELSE SplitSentences(SubSeq(s, 2, Len(s)), cur \o SubSeq(s, 1, 1))

\* Some sentence holds both a primary and a context keyword.
SameSentence ==
    \E sentence \in SplitSentences(ClsLower, "") :
        /\ Matches(PRIMARY_VOICE_AI_KEYWORDS(cls.cfg), sentence) # <<>>
        /\ Matches(CONTEXT_KEYWORDS(cls.cfg), sentence) # <<>>

\* C13 as stated: a text in which no primary keyword of the configuration
\* occurs is rejected, whatever else it contains.
C13_NoPrimaryRejected ==
    (ClsDone /\ cls.text # NoneText /\ PrimaryHits = <<>>)
        => cls.ret = FALSE

\* C14: a text in which at least two different keywords of the
\* configuration's ALL_VOICE_AI_KEYWORDS occur is accepted.
C14_TwoKeywordsAccepted ==
    (ClsDone /\ cls.text # NoneText /\ Cardinality(SeqToSet(AllHits)) >= 2)
        => cls.ret = TRUE /\ ~cls.raised

\* Two secondary keywords and no primary one, accepted by the package
\* classifier.
C14_Witness ==
    /\ ClsDone /\ cls.cfg = "package" /\ cls.text # NoneText
    /\ PrimaryHits = <<>>
    /\ Cardinality(SeqToSet(AllHits)) >= 2
    /\ cls.ret = TRUE

\* C15 as stated: with exactly one primary match and at least one context
\* match, the text is accepted when some sentence holds both, and rejected
\* when no sentence does and nothing but the primary keyword matches.
C15_SentenceRule ==
    (ClsDone /\ cls.text # NoneText /\ Len(PrimaryHits) = 1
             /\ ContextHits # <<>>)
        => /\ SameSentence => cls.ret = TRUE
           /\ (~SameSentence /\ Len(AllHits) = 1) => cls.ret = FALSE

\* C15 amended: with exactly one primary match and at least one context
\* match the text is accepted, in whichever sentences the two occur.
C15_PrimaryAndContextAccepted ==
    (ClsDone /\ cls.text # NoneText /\ Len(PrimaryHits) = 1
             /\ ContextHits # <<>>)
        => cls.ret = TRUE /\ ~cls.raised

\* The primary and the context keyword sit in different sentences, nothing
\* else matches, and the text is accepted.
C15_Witness ==
    /\ ClsDone /\ cls.text # NoneText
    /\ Len(PrimaryHits) = 1 /\ ContextHits # <<>>
    /\ ~SameSentence /\ Len(AllHits) = 1
    /\ cls.ret = TRUE

\* C16: None and the empty string are rejected and nothing is raised.
C16_NoneAndEmptyRejected ==
    (ClsDone /\ cls.text \in {NoneText, ""})
        => cls.ret = FALSE /\ ~cls.raised

C16_Witness == ClsDone /\ cls.text = NoneText /\ cls.ret = FALSE

\* C17: the three scenario texts get the verdicts the specification gives,
\* under every keyword configuration.
C17_ScenarioVerdicts ==
    ClsDone =>
        /\ cls.text = "ElevenLabs launches new text-to-speech API"
              => cls.ret = TRUE /\ ~cls.raised
        /\ cls.text = "Tesla announces new Autopilot features"
              => cls.ret = FALSE /\ ~cls.raised
        /\ cls.text = "Our new AI model improves efficiency"
              => cls.ret = FALSE /\ ~cls.raised

\* The text with "AI" and no voice word, rejected by the legacy classifier.
C17_Witness ==
    /\ ClsDone /\ cls.cfg = "module"
    /\ cls.text = "Our new AI model improves efficiency"
    /\ has_ai(ClsLower)
    /\ cls.ret = FALSE

\* C18 as stated: in the configuration of any call, the primary keywords
\* are a strict subset of ALL_VOICE_AI_KEYWORDS.
C18_PrimaryStrictSubset ==
    ClsDone =>
        /\ SeqToSet(PRIMARY_VOICE_AI_KEYWORDS(cls.cfg))
              \subseteq SeqToSet(ALL_VOICE_AI_KEYWORDS(cls.cfg))
        /\ SeqToSet(PRIMARY_VOICE_AI_KEYWORDS(cls.cfg))
              # SeqToSet(ALL_VOICE_AI_KEYWORDS(cls.cfg))

\* C19 as stated: when config.keywords cannot be imported, the classifier
\* raises nothing and rejects every text.
C19_AbsentKeywordsRejectAll ==
    (ClsDone /\ cls.cfg = "builtin") => cls.ret = FALSE /\ ~cls.raised

\* C19 amended: when config.keywords cannot be imported, the classifier
\* raises nothing, accepts every text in which a keyword of the built-in
\* table occurs, and rejects every text with no such keyword unless it holds
\* both an AI word and a voice word.
C19_BuiltinTableClassifies ==
    (ClsDone /\ cls.cfg = "builtin") =>
        /\ ~cls.raised
        /\ Matches(BUILTIN_PRIMARY_VOICE_AI_KEYWORDS, ClsLower) # <<>>
              => cls.ret = TRUE
        /\ (/\ Matches(BUILTIN_PRIMARY_VOICE_AI_KEYWORDS, ClsLower) = <<>>
            /\ ~(has_ai(ClsLower) /\ has_voice(ClsLower)))
              => cls.ret = FALSE

\* A text with a built-in keyword, accepted although the module is missing.
C19_Witness ==
    /\ ClsDone /\ cls.cfg = "builtin"
    /\ Matches(BUILTIN_PRIMARY_VOICE_AI_KEYWORDS, ClsLower) # <<>>
    /\ cls.ret = TRUE

----------------------------------------------------------------------------
(* Properties of the pipeline *)

\* C20 as stated: whatever the collaborators do and whatever records the
\* Reddit scraper returns, no exception leaves run_pipeline.
C20_NoExceptionLeavesPipeline ==
    pipe.variant \in {"package", "main_fixed"} => ~pipe.raised

\* C21 as stated: the command-line entry point (once its process is past the
\* module-level imports) returns a non-zero exit code exactly when the
\* news-fetch stage failed as a whole (scrape_news_sources raised); no other
\* failure changes the exit code.
C21_ExitSignalsFetchFailure ==
    (pipe.pc = "exited" /\ ~pipe.crashed)
        => (pipe.exit # 0 <=> pipe.fetch_failed)

\* The run summaries this execution has left in the store (both backends
\* are empty when it starts).
RunSummariesStored == Len(runs_file) + Len(runs_coll)

\* C22 as stated: a completed pipeline execution (its imports succeeded and
\* no exception left it) has created exactly one run summary (none only when
\* the store itself failed), whether or not it sent the email digest.
C22_OneRunSummaryPerRun ==
    (/\ pipe.pc \in {"done", "exited"}
     /\ ~pipe.raised /\ ~pipe.import_error /\ ~pipe.crashed) =>
        /\ RunSummariesStored <= 1
        /\ faults = 0 => RunSummariesStored = 1

\* The classifier each run_pipeline imports.
PipeRelevant(text) ==
    IF pipe.variant = "main_fixed" THEN is_relevant_legacy("builtin", text).ret
    ELSE is_relevant_package(text).ret

\* The classifier accepted the item's title or its content, and the item
\* carries the summary generated for it: process_content has set 'summary',
\* a key no scraper sets.
Admitted(item) ==
    /\ PipeRelevant(item.title) \/ PipeRelevant(item.content)
    /\ item.summary # Absent

----------------------------------------------------------------------------
(* Properties of the stored records *)

\* C24 as stated: store_news_item and store_reaction generate an identifier
\* and a stored_at value only for a record that carries none; an identifier
\* or a stored_at value the record already carries is preserved.
C24_IdAndStampOnlyWhenAbsent ==
    last.op \in {"store_news_item", "store_reaction"} =>
        /\ last.item.id # None
        /\ last.arg.id # None => last.item.id = last.arg.id
        /\ "stored_at" \in DOMAIN last.item
        /\ "stored_at" \in DOMAIN last.arg =>
              last.item.stored_at = last.arg.stored_at

\* The records either backend holds: each was written by a store_news_item
\* call that returned its identifier.
StoredNews == SeqToSet(news_file) \cup SeqToSet(news_coll)

\* C25 as stated: whatever stores, reads and changes of the primary's
\* availability came before, a get_recent_news call with no I/O failure
\* returns every item inside the window that a store_news_item call has
\* stored.
C25_StoredItemsStayReadable ==
    (last.op = "get_recent_news" /\ LastCallClean)
        => \A r \in StoredNews :
              r.published = "recent"
                  => \E k \in 1..Len(last.rows) : last.rows[k].url = r.url

\* C26 as stated: a store_news_item call served by the file, whether or not
\* it could read the existing file, leaves every record stored under another
\* URL in the file, unchanged.
C26_FileUpsertKeepsOtherUrls ==
    [][(/\ last'.op = "store_news_item" /\ last' # last
        /\ last'.served = "file" /\ last'.ff \in {"ok", "read"}
        /\ last'.arg.url # Absent)
          => \A r \in SeqToSet(news_file) :
                r.url # last'.item.url => r \in SeqToSet(news_file')]_vars

\* The record task t left in the backend that served it.
TaskRecordPresent(t) ==
    LET b == IF tasks[t].served = "file" THEN news_file ELSE news_coll
    IN \E i \in 1..Len(b) :
          /\ b[i].url = tasks[t].item.url
          /\ b[i].id = tasks[t].ret
          /\ b[i].title = tasks[t].item.title

\* C27: when two store_news_item coroutines for two different URLs have both
\* returned an identifier, however their steps interleaved and whichever
\* backend each ended up in, the record of each is present in the backend
\* that served it.
C27_NoLostUpdate ==
    (/\ \A t \in Tasks : /\ tasks[t].pc = "done" /\ tasks[t].ret # None
                         /\ tasks[t].item.url # Absent
     /\ tasks[1].item.url # tasks[2].item.url)
        => \A t \in Tasks : TaskRecordPresent(t)

----------------------------------------------------------------------------
(* Properties of the trends *)

\* C28 as stated: for the activity and the news-volume series, a trend
\* reported as "improving" comes with a change >= 0 (the current run is not
\* below the oldest analysed run) and a trend reported as "declining" with a
\* change <= 0.
C28_TrendAgreesWithChange ==
    (trends.pc = "done" /\ trends.available) =>
        /\ trends.activity_trend = "improving" => trends.activity_change >= 0
        /\ trends.activity_trend = "declining" => trends.activity_change <= 0
        /\ trends.news_trend = "improving" => trends.news_change >= 0
        /\ trends.news_trend = "declining" => trends.news_change <= 0

----------------------------------------------------------------------------
(* Properties of the news scraper *)

RECURSIVE InSourceOrder(_, _)

\* The articles of the sources that returned a list, in the order of
\* NEWS_SOURCES, from source k on.
InSourceOrder(results, k) ==
    IF k > Len(results) THEN <<>>
    ELSE (IF results[k].ok THEN results[k].articles ELSE <<>>)
         \o InSourceOrder(results, k + 1)

\* The position of the first article with URL u in s.
FirstWithUrl(s, u) == CHOOSE i \in 1..Len(s) :
    s[i].url = u /\ \A j \in 1..(i - 1) : s[j].url # u

\* C29: the list scrape_news_sources returns holds no URL twice; each URL is
\* represented by its first occurrence in source order and the list follows
\* that order; every article URL of a source that returned a list is in it,
\* whatever happened to the other sources.
C29_UniqueUrlsFirstOccurrence ==
    scrape.pc = "done" =>
        LET all == InSourceOrder(scrape.results, 1)
            ret == scrape.ret
        IN /\ \A a, b \in 1..Len(ret) : a # b => ret[a].url # ret[b].url
           /\ \A a \in 1..Len(ret) :
                 /\ \E i \in 1..Len(all) : all[i].url = ret[a].url
                 /\ ret[a] = all[FirstWithUrl(all, ret[a].url)]
           /\ \A a, b \in 1..Len(ret) :
                 a < b => FirstWithUrl(all, ret[a].url)
                            < FirstWithUrl(all, ret[b].url)
           /\ \A k \in 1..Len(scrape.results) :
                 scrape.results[k].ok =>
                    \A i \in 1..Len(scrape.results[k].articles) :
                       \E a \in 1..Len(ret) :
                          ret[a].url = scrape.results[k].articles[i].url

\* The first source returned u1, the second raised, the third (a web page)
\* returned u1 again and then u2: u1 is reported from the first source, u2
\* from the third.
C29_Witness ==
    /\ scrape.pc = "done"
    /\ Len(scrape.results) = 3
    /\ scrape.results[1].ok /\ Len(scrape.results[1].articles) = 1
    /\ ~scrape.results[2].ok
    /\ scrape.types[3] = "web" /\ Len(scrape.results[3].articles) = 2
    /\ scrape.results[3].articles[1].url = scrape.results[1].articles[1].url
    /\ Len(scrape.ret) = 2
    /\ scrape.ret[1].source = 1 /\ scrape.ret[2].source = 3

----------------------------------------------------------------------------
(* Properties of main() *)

ContinuousMode == ~run_once(loop.env)

\* C30 as stated: in continuous mode (RUN_ONCE=false) main() never returns,
\* every run that was started comes to its end whatever stage failed in it,
\* and after every completed run a new run is started; with RUN_ONCE unset
\* or true exactly one run is executed and main() returns.
C30_ContinuousModeKeepsScheduling ==
    /\ [](ContinuousMode => loop.pc # "exit")
    /\ (ContinuousMode /\ loop.pc = "import") ~> (loop.pc = "news")
    /\ (ContinuousMode /\ loop.pc = "news") ~> (loop.pc = "finish")
    /\ (ContinuousMode /\ loop.pc = "finish" /\ loop.runs < MaxRuns)
          ~> (loop.pc = "news")
    /\ [](~ContinuousMode => loop.runs <= 1)
    /\ ~ContinuousMode ~> (loop.pc = "exit" /\ loop.runs = 1)

====
